---- MODULE Spec2Model ----
(***************************************************************************)
(* A model of yuft: carpool / reminder / rank records kept as messages of  *)
(* chat channels (src/carpool.py, src/reminder.py, src/rank.py), and the   *)
(* reminder scheduler built on a task pool (src/reminder.py, src/utils.py).*)
(*                                                                         *)
(* A channel is a sequence of messages, oldest first; channel.history()   *)
(* reads it newest first.  Coroutines interleave only at their awaits: an  *)
(* action is the effect of one await together with the synchronous code   *)
(* that follows it up to the next await.                                   *)
(***************************************************************************)
EXTENDS Integers, Sequences, FiniteSets, TLC

VARIABLES
    now,          \* time.time(), in seconds
    lastId,       \* the newest message id the chat service has assigned
    carpoolLog,   \* messages of the carpool channel, oldest first
    reminderLog,  \* messages of the reminder channel, oldest first
    reminders,    \* reminder.Database.reminders, the pending cache
    tasks,        \* TaskPool.tasks: the tasks run_after started, not yet done
    nextTick,     \* when mainloop's asyncio.sleep(5 * 60) ends
    pc,           \* each coroutine's position
    todo,         \* fetch_all: the part of the history not yet decoded
    acc,          \* fetch_all: the reminders decoded so far
    ret,          \* the iterator of each handler's loop over fetch_all()
    victim,       \* Reminder.delete in progress: the reminder being deleted
    target,       \* the carpool whose reminders the handler deletes
    cancelled,    \* ids whose Reminder.delete a caller completed before any arming
    res,          \* the carpool store's last call and what it returned
    rankLog,      \* messages of the rank channel, oldest first
    frame,        \* each command handler's local variables
    boots,        \* how many times the process has been restarted
    call,         \* the call of a helper function in progress: input, position, output
    fired         \* ids of the reminders whose callback has been invoked

vars == <<now, lastId, carpoolLog, reminderLog, reminders, tasks, nextTick,
          pc, todo, acc, ret, victim, target, cancelled, res,
          rankLog, frame, boots, call, fired>>

\* what neither a store nor the scheduler writes
cmdVars == <<rankLog, frame, boots, call>>

schedVars == <<reminderLog, reminders, tasks, nextTick, pc, todo, acc, ret,
               victim, target, cancelled>>

----------------------------------------------------------------------------
(* Bounds of the model                                                     *)

MaxCarpools == 3      \* messages the carpool channel holds at most
MaxClock == 2         \* the carpool store is read at times 0..MaxClock
MaxId == 22           \* the largest message id the chat service assigns

(* Program constants                                                       *)

CarpoolArity == 8     \* from_message unpacks exactly eight fields

----------------------------------------------------------------------------
(* Values                                                                  *)

None == <<>>
Some(x) == <<x>>

\* no helper function is being called
NoEval == [fn |-> "none"]

Min(S) == CHOOSE x \in S : \A y \in S : x <= y

Reverse(s) == [i \in 1..Len(s) |-> s[Len(s) + 1 - i]]

\* a delete that removes nothing
RemoveMsg_none(log, id) == log

\* message.delete(): the message of that id leaves the channel
RemoveMsg(log, id) == SelectSeq(log, LAMBDA m : m.id # id)

Ids(log) == {log[i].id : i \in 1..Len(log)}

Range(s) == {s[i] : i \in 1..Len(s)}

RECURSIVE Digits(_)
Digits(n) == IF n < 10 THEN 1 ELSE 1 + Digits(n \div 10)

RECURSIVE Pow10(_)
Pow10(k) == IF k = 0 THEN 1 ELSE 10 * Pow10(k - 1)

\* str(msg.id).endswith(str(id)) for ids >= 0
EndsWith(msgId, id) == msgId % Pow10(Digits(id)) = id

\* a history that yields no message
history_none(log, limit) == <<>>

\* channel.history(limit=limit): newest first, at most limit messages
history(log, limit) ==
    LET h == Reverse(log)
    IN  IF limit = None THEN h
        ELSE SubSeq(h, 1, IF limit[1] < Len(h) THEN limit[1] ELSE Len(h))

----------------------------------------------------------------------------
(* The carpool store, src/carpool.py                                       *)

\* A message of the carpool channel: nf is the number of fields
\* content.split(DELIMITER) yields, dateOk whether the second one parses as
\* a Timestamp, restOk whether owner, seats and joiners parse.
CarpoolMsg(id, nf, dateOk, date, restOk) ==
    [id |-> id, nf |-> nf, dateOk |-> dateOk, date |-> date, restOk |-> restOk]

\* Carpool.serialize of a record made by Database.create
Carpool_serialize(id, date) == CarpoolMsg(id, CarpoolArity, TRUE, date, TRUE)

Expired_mutant(date, t) == date <= t

\* date_.timestamp < time.time()
Expired(date, t) == date < t

\* Carpool.from_message: "raise" (the unpacking or a conversion raises),
\* "expired" (the message is deleted, None is returned) or "record"
Carpool_from_message(m, t) ==
    IF m.nf # CarpoolArity THEN "raise"
    ELSE IF ~m.dateOk THEN "raise"
    ELSE IF Expired(m.date, t) THEN "expired"
    ELSE IF ~m.restOk THEN "raise"
    ELSE "record"

\* The list comprehension of Database.fetch_all over the history h: the
\* messages are decoded in order; an exception ends the call, the deletions
\* made before it stay.
RECURSIVE fetch_all_scan(_, _, _, _, _)
fetch_all_scan(h, log, t, got, seen) ==
    IF h = <<>>
    THEN [out |-> "ok", value |-> got, log |-> log, examined |-> seen]
    ELSE LET m == Head(h)
             r == Carpool_from_message(m, t)
         IN  IF r = "raise"
             THEN [out |-> "error", value |-> <<>>, log |-> log,
                   examined |-> Append(seen, m.id)]
             ELSE IF r = "expired"
             THEN fetch_all_scan(Tail(h), RemoveMsg(log, m.id), t, got,
                                 Append(seen, m.id))
             ELSE fetch_all_scan(Tail(h), log, t, Append(got, m),
                                 Append(seen, m.id))

FirstMatch_mutant(h, id) ==
    LET hits == {i \in 1..Len(h) : EndsWith(h[i].id, id)}
    IN  IF hits = {} THEN None ELSE Some(h[CHOOSE i \in hits : \A j \in hits : j <= i])

\* async for msg in history: if str(msg.id).endswith(str(id)): break
FirstMatch(h, id) ==
    LET hits == {i \in 1..Len(h) : EndsWith(h[i].id, id)}
    IN  IF hits = {} THEN None ELSE Some(h[Min(hits)])

\* Database.fetch(id) on the channel content log at time t
fetch_result(log, id, t) ==
    LET hit == FirstMatch(history(log, None), id)
    IN  IF hit = None
        THEN [out |-> "ok", value |-> <<>>, log |-> log, examined |-> <<>>]
        ELSE LET m == hit[1]
                 r == Carpool_from_message(m, t)
             IN  [out |-> IF r = "raise" THEN "error" ELSE "ok",
                  value |-> IF r = "record" THEN <<m>> ELSE <<>>,
                  log |-> IF r = "expired" THEN RemoveMsg(log, m.id) ELSE log,
                  examined |-> <<m.id>>]

NoCall == [op |-> "none", arg |-> None, out |-> "ok", value |-> <<>>,
           examined |-> <<>>, at |-> 0, before |-> <<>>]

Call(op, arg, r, before) ==
    [op |-> op, arg |-> arg, out |-> r.out, value |-> r.value,
     examined |-> r.examined, at |-> now, before |-> before]

\* Database.create: the record is serialized and sent; the chat service
\* gives the message a new id, larger than every id before it.
CarpoolDB_create(date, gap) ==
    /\ Len(carpoolLog) < MaxCarpools
    /\ lastId + gap <= MaxId
    /\ lastId' = lastId + gap
    /\ carpoolLog' = Append(carpoolLog, Carpool_serialize(lastId + gap, date))
    /\ res' = [op |-> "create", arg |-> None, out |-> "ok",
               value |-> <<Carpool_serialize(lastId + gap, date)>>,
               examined |-> <<>>, at |-> now, before |-> carpoolLog]
    /\ UNCHANGED <<now, schedVars, cmdVars, fired>>

\* Database.fetch_all(limit=limit)
CarpoolDB_fetch_all(limit) ==
    LET r == fetch_all_scan(history(carpoolLog, limit), carpoolLog, now, <<>>, <<>>)
    IN  /\ carpoolLog' = r.log
        /\ res' = Call("fetch_all", limit, r, carpoolLog)
        /\ UNCHANGED <<now, lastId, schedVars, cmdVars, fired>>

\* Database.fetch(id)
CarpoolDB_fetch(id) ==
    LET r == fetch_result(carpoolLog, id, now)
    IN  /\ carpoolLog' = r.log
        /\ res' = Call("fetch", Some(id), r, carpoolLog)
        /\ UNCHANGED <<now, lastId, schedVars, cmdVars, fired>>

\* time passes between two calls
Elapse ==
    /\ now < MaxClock
    /\ now' = now + 1
    /\ UNCHANGED <<lastId, carpoolLog, res, schedVars, cmdVars, fired>>

----------------------------------------------------------------------------
(* The carpool store read by one caller.  The channel already holds        *)
(* messages when the bot attaches to it (main.py, on_ready): records of    *)
(* earlier runs and messages that are no carpool record at all.            *)

OldIds == {2, 12}

OldShapes ==
    {<<CarpoolArity, TRUE, 1, TRUE>>, <<CarpoolArity, TRUE, 2, TRUE>>,
     <<1, FALSE, 0, FALSE>>, <<CarpoolArity, TRUE, 1, FALSE>>}

RECURSIVE SortedMsgs(_, _)
SortedMsgs(S, f) ==
    IF S = {} THEN <<>>
    ELSE LET i == Min(S)
         IN  <<CarpoolMsg(i, f[i][1], f[i][2], f[i][3], f[i][4])>>
             \o SortedMsgs(S \ {i}, f)

OldLogs == {SortedMsgs(S, f) : S \in SUBSET OldIds, f \in [OldIds -> OldShapes]}

LaterIdle ==
    /\ rankLog = <<>>
    /\ frame = <<>>
    /\ boots = 0
    /\ call = NoEval
    /\ fired = {}

SchedIdle ==
    /\ reminderLog = <<>>
    /\ reminders = <<>>
    /\ tasks = <<>>
    /\ nextTick = 0
    /\ pc = <<>>
    /\ todo = <<>>
    /\ acc = <<>>
    /\ ret = <<>>
    /\ victim = <<>>
    /\ target = <<>>
    /\ cancelled = {}
    /\ LaterIdle

InitCarpool ==
    /\ now = 0
    /\ lastId = 12
    /\ carpoolLog \in OldLogs
    /\ res = NoCall
    /\ SchedIdle

NextCarpool ==
    \/ \E d \in 1..MaxClock, g \in {1, 10} : CarpoolDB_create(d, g)
    \/ \E l \in {None, Some(1), Some(2)} : CarpoolDB_fetch_all(l)
    \/ \E i \in {2, 3, 12} : CarpoolDB_fetch(i)
    \/ Elapse

SpecCarpool == InitCarpool /\ [][NextCarpool]_vars

----------------------------------------------------------------------------
(* The reminder store and its scheduler, src/reminder.py, src/utils.py     *)

MaxTime == 600        \* the clock of the scheduler runs from 0 to MaxTime
MaxReminders == 1     \* reminders created at most during one run

Minute == 60          \* rappel * 60: a reminder's lead is in whole minutes

PollInterval == 5 * 60

Callers == {"c1", "c2"}     \* coroutines of command handlers using the store
Procs == Callers \cup {"main"}

\* A message of the reminder channel as Reminder.serialize writes it and
\* Reminder.from_message reads it; the Reminder object built from it has the
\* same fields (source is the carpool's message id) and equals every other
\* Reminder of the same message id.
Reminder(id, event_date, remind_date, user, fallback_channel, source) ==
    [id |-> id, event_date |-> event_date, remind_date |-> remind_date,
     user |-> user, fallback_channel |-> fallback_channel, source |-> source]

\* self in self.database.reminders
InCache(cache, id) == \E i \in 1..Len(cache) : cache[i].id = id

\* a removal that removes nothing
list_keep(cache, id) == cache

\* list.remove(reminder): drops the first element equal to it
list_remove(cache, id) ==
    LET hits == {i \in 1..Len(cache) : cache[i].id = id}
    IN  IF hits = {} THEN cache
        ELSE SubSeq(cache, 1, Min(hits) - 1) \o SubSeq(cache, Min(hits) + 1, Len(cache))

\* the test with <= in place of <
NearDue_mutant(r, t) == r.remind_date - t <= PollInterval

\* reminder.remind_date.timestamp - time.time() < 5 * 60
NearDue(r, t) == r.remind_date - t < PollInterval

\* a sleep that ends as soon as it starts
Wakeup_early(t, delay) == t

\* await asyncio.sleep(delay) started at t ends at t + delay, and at t when
\* delay <= 0
Wakeup(t, delay) == IF delay <= 0 THEN t ELSE t + delay

\* TaskPool.run_after(delay, partial(self.process, callback, reminder))
\* called at time t: a task that sleeps, then runs process
run_after(t, delay, r) ==
    [rem |-> r, armed_at |-> t, delay |-> delay, due |-> Wakeup(t, delay),
     st |-> "sleep", fired_at |-> 0]

\* One pass of mainloop's for loop over the copy self.reminders[:]
RECURSIVE mainloop_pass(_, _, _, _)
mainloop_pass(copy, cache, ts, t) ==
    IF copy = <<>> THEN [cache |-> cache, tasks |-> ts]
    ELSE LET r == Head(copy)
         IN  IF NearDue(r, t)
             THEN mainloop_pass(Tail(copy), list_remove(cache, r.id),
                                ts \cup {run_after(t, r.remind_date - t, r)}, t)
             ELSE mainloop_pass(Tail(copy), cache, ts, t)

\* The iterator of a handler's loop "for reminder in await fetch_all()".
\* fetch_all returns the very list it assigns to self.reminders, so the
\* handler iterates the pending cache itself (on = "cache") until another
\* fetch_all assigns a new list; from then on the list it iterates is its
\* own (on = "own", list).  i counts the elements the iterator has yielded.
NoLoop == [on |-> "none", list |-> <<>>, i |-> 0]

\* self.reminders = <new list>: the handlers that iterate the old list,
\* whose content is old, keep it
detach(p, old) ==
    [q \in Procs |->
        IF q # p /\ ret[q].on = "cache"
        THEN [on |-> "own", list |-> old, i |-> ret[q].i]
        ELSE ret[q]]

\* for reminder in <list>: if reminder.source == carpool: await
\* reminder.delete(), from the iterator it up to the await of the next
\* delete: the reminder leaves the pending cache (Reminder.delete), its
\* message is not deleted yet.  cache is self.reminders, and is the list
\* iterated when it.on = "cache"; base is every handler's iterator.
delete_next(p, cache, it, base) ==
    LET list == IF it.on = "cache" THEN cache ELSE it.list
        rest == {j \in (it.i + 1)..Len(list) : list[j].source = target[p]}
    IN  IF rest = {}
        THEN /\ reminders' = cache
             /\ pc' = [pc EXCEPT ![p] = "idle"]
             /\ victim' = [victim EXCEPT ![p] = <<>>]
             /\ ret' = [base EXCEPT ![p] = NoLoop]
        ELSE /\ reminders' = list_remove(cache, list[Min(rest)].id)
             /\ pc' = [pc EXCEPT ![p] = "del"]
             /\ victim' = [victim EXCEPT ![p] = <<list[Min(rest)]>>]
             /\ ret' = [base EXCEPT ![p] = [it EXCEPT !.i = Min(rest)]]

\* the handler's loop ends by an exception
loop_raise(p) ==
    /\ pc' = [pc EXCEPT ![p] = "idle"]
    /\ victim' = [victim EXCEPT ![p] = <<>>]
    /\ ret' = [ret EXCEPT ![p] = NoLoop]
    /\ UNCHANGED reminders

\* fetch_all's last lines, self.reminders = reminders; return reminders.
\* In run() the first pass of mainloop follows with no await in between; in
\* a command handler the loop over the returned list does.
fetch_all_return(p, list, old) ==
    IF p = "main"
    THEN LET r == mainloop_pass(list, list, tasks, now)
         IN  /\ reminders' = r.cache
             /\ tasks' = r.tasks
             /\ nextTick' = now + PollInterval
             /\ pc' = [pc EXCEPT ![p] = "sleep"]
             /\ ret' = detach(p, old)
             /\ UNCHANGED victim
    ELSE /\ delete_next(p, list, [on |-> "cache", list |-> <<>>, i |-> 0],
                     detach(p, old))
         /\ UNCHANGED <<tasks, nextTick>>

\* fetch_all ended by an exception: nothing is assigned, the caller ends
fetch_all_raise(p) ==
    /\ pc' = [pc EXCEPT ![p] = IF p = "main" THEN "dead" ELSE "idle"]
    /\ UNCHANGED <<tasks, nextTick, ret, victim>>

\* fetch_all: channel.history() has been read
fetch_all_history(p, limit) ==
    LET h == history(reminderLog, limit)
    IN  IF h = <<>>
        THEN /\ fetch_all_return(p, <<>>, reminders)
             /\ UNCHANGED <<todo, acc>>
        ELSE /\ pc' = [pc EXCEPT ![p] = "fa"]
             /\ todo' = [todo EXCEPT ![p] = h]
             /\ acc' = [acc EXCEPT ![p] = <<>>]
             /\ UNCHANGED <<reminders, tasks, nextTick, ret, victim>>

\* Database.run, started once by on_ready: await self.fetch_all()
run ==
    /\ pc["main"] = "off"
    /\ fetch_all_history("main", None)
    /\ UNCHANGED <<now, lastId, carpoolLog, reminderLog, target, cancelled, res,
                   cmdVars, fired>>

\* A command handler (_quitter, _supprimer) on the carpool source calls
\* Database.fetch_all(limit=limit) to delete that carpool's reminders
fetch_all(p, limit, source) ==
    /\ p \in Callers
    /\ pc["main"] # "off"
    /\ pc[p] = "idle"
    /\ target' = [target EXCEPT ![p] = source]
    /\ fetch_all_history(p, limit)
    /\ UNCHANGED <<now, lastId, carpoolLog, reminderLog, cancelled, res,
                   cmdVars, fired>>

\* (The command layer's record of how a handler ended, frame, is left to
\* the specification that runs the action.)
\* Reminder.from_message on the next message of the history: the converter
\* (carpool_database.fetch of the source id) answers; a reminder whose
\* source is None deletes itself; after the last message fetch_all returns.
from_message(p) ==
    /\ pc[p] = "fa"
    /\ LET m == Head(todo[p])
           src == fetch_result(carpoolLog, m.source, now)
           last == Tail(todo[p]) = <<>>
       IN  /\ carpoolLog' = src.log
           /\ IF src.out = "error"
              THEN \* the converter raised
                   /\ fetch_all_raise(p)
                   /\ todo' = [todo EXCEPT ![p] = <<>>]
                   /\ acc' = [acc EXCEPT ![p] = <<>>]
                   /\ UNCHANGED <<reminders, reminderLog>>
              ELSE IF src.value = <<>>
              THEN \* await self.delete(); return None
                   IF m.id \in Ids(reminderLog)
                   THEN /\ reminderLog' = RemoveMsg(reminderLog, m.id)
                        /\ todo' = [todo EXCEPT ![p] = Tail(@)]
                        /\ IF last
                           THEN /\ fetch_all_return(p, acc[p], list_remove(reminders, m.id))
                                /\ acc' = [acc EXCEPT ![p] = <<>>]
                           ELSE /\ reminders' = list_remove(reminders, m.id)
                                /\ UNCHANGED <<acc, pc, tasks, nextTick, ret, victim>>
                   ELSE \* message.delete() raises NotFound
                        /\ reminders' = list_remove(reminders, m.id)
                        /\ fetch_all_raise(p)
                        /\ todo' = [todo EXCEPT ![p] = <<>>]
                        /\ acc' = [acc EXCEPT ![p] = <<>>]
                        /\ UNCHANGED reminderLog
              ELSE /\ UNCHANGED reminderLog
                   /\ todo' = [todo EXCEPT ![p] = Tail(@)]
                   /\ IF last
                      THEN /\ fetch_all_return(p, Append(acc[p], m), reminders)
                           /\ acc' = [acc EXCEPT ![p] = <<>>]
                      ELSE /\ acc' = [acc EXCEPT ![p] = Append(@, m)]
                           /\ UNCHANGED <<reminders, pc, tasks, nextTick, ret, victim>>
    /\ UNCHANGED <<now, lastId, target, cancelled, res, rankLog, boots, call, fired>>

\* the newest id assigned before the run: one carpool, one reminder
OldLastId == 1 + 1

\* Database.create: the reminder is sent to the channel, which gives it its
\* message, and is appended to the pending cache
create(p, event_date, remind_date, user, fallback_channel, source) ==
    /\ p \in Callers
    /\ pc["main"] # "off"
    /\ pc[p] = "idle"
    /\ lastId < OldLastId + MaxReminders
    /\ lastId' = lastId + 1
    /\ LET r == Reminder(lastId + 1, event_date, remind_date, user,
                         fallback_channel, source)
       IN  /\ reminderLog' = Append(reminderLog, r)
           /\ reminders' = Append(reminders, r)
    /\ UNCHANGED <<now, carpoolLog, tasks, nextTick, pc, todo, acc, ret, victim,
                   target, cancelled, res,
                   cmdVars, fired>>

Armed(ts, id) == \E k \in ts : k.rem.id = id

delete_cancels_timer(ts, id) == {k \in ts : k.rem.id # id \/ k.st # "sleep"}

\* Reminder.delete touches the cache and the message only: the tasks of the
\* pool that hold the reminder stay as they are
delete_keeps_tasks(ts, id) == ts

\* await self.message.delete() of Reminder.delete answers: the message is
\* gone (NotFound is raised when it was gone already, and ends the handler);
\* the handler's loop goes on to its next reminder.
message_delete(p) ==
    /\ pc[p] = "del"
    /\ LET r == victim[p][1]
       IN  /\ reminderLog' = RemoveMsg(reminderLog, r.id)
           /\ cancelled' = IF r.id \in Ids(reminderLog) /\ ~Armed(tasks, r.id)
                           THEN cancelled \cup {r.id} ELSE cancelled
           /\ IF r.id \in Ids(reminderLog)
              THEN delete_next(p, reminders, ret[p], ret)
              ELSE loop_raise(p)
           /\ tasks' = delete_keeps_tasks(tasks, r.id)
    /\ UNCHANGED <<now, lastId, carpoolLog, nextTick, todo, acc, target, res,
                   rankLog, boots, call, fired>>

\* mainloop: asyncio.sleep(5 * 60) ends and the for loop runs once more
mainloop ==
    /\ pc["main"] = "sleep"
    /\ now >= nextTick
    /\ LET r == mainloop_pass(reminders, reminders, tasks, now)
       IN  /\ reminders' = r.cache
           /\ tasks' = r.tasks
    /\ nextTick' = now + PollInterval
    /\ UNCHANGED <<now, lastId, carpoolLog, reminderLog, pc, todo, acc, ret,
                   victim, target, cancelled, res,
                   cmdVars, fired>>

\* inner_callback: asyncio.sleep(delay) ends, process starts and calls the
\* notification callback
inner_callback(k) ==
    /\ k \in tasks
    /\ k.st = "sleep"
    /\ now >= k.due
    /\ tasks' = (tasks \ {k}) \cup {[k EXCEPT !.st = "callback", !.fired_at = now]}
    /\ UNCHANGED <<now, lastId, carpoolLog, reminderLog, reminders, nextTick,
                   pc, todo, acc, ret, victim, target, cancelled, res, cmdVars>>
    /\ fired' = fired \cup {k.rem.id}

\* process: the callback returns and reminder.delete() runs up to its await
process(k) ==
    /\ k \in tasks
    /\ k.st = "callback"
    /\ tasks' = (tasks \ {k}) \cup {[k EXCEPT !.st = "delete"]}
    /\ reminders' = list_remove(reminders, k.rem.id)
    /\ UNCHANGED <<now, lastId, carpoolLog, reminderLog, nextTick, pc, todo,
                   acc, ret, victim, target, cancelled, res,
                   cmdVars, fired>>

\* process: await self.message.delete() answers (or raises NotFound); the
\* task is done and the pool discards it
process_delete(k) ==
    /\ k \in tasks
    /\ k.st = "delete"
    /\ tasks' = tasks \ {k}
    /\ reminderLog' = RemoveMsg(reminderLog, k.rem.id)
    /\ UNCHANGED <<now, lastId, carpoolLog, reminders, nextTick, pc, todo, acc,
                   ret, victim, target, cancelled, res,
                   cmdVars, fired>>

\* what the event loop wakes next: the sleeping timers and mainloop's sleep
Wakeups ==
    {k.due : k \in {j \in tasks : j.st = "sleep"}}
        \cup (IF pc["main"] = "sleep" THEN {nextTick} ELSE {})

\* the instants at which the clock is looked at: one minute after each
\* multiple of the poll interval
Instants == {t \in 1..MaxTime : t % PollInterval = Minute}

\* time passes, up to the next wake-up: a sleep that has ended runs before
\* the clock moves on
Advance ==
    /\ \E t \in Wakeups \cup Instants :
           /\ t > now
           /\ t <= MaxTime
           /\ \A w \in Wakeups : t <= w
           /\ now' = t
    /\ UNCHANGED <<lastId, carpoolLog, reminderLog, reminders, tasks, nextTick,
                   pc, todo, acc, ret, victim, target, cancelled, res,
                   cmdVars, fired>>

\* The carpool channel holds one carpool, departing after MaxTime; the
\* reminder channel is empty or holds a reminder of an earlier run.
Departure == MaxTime + Minute

OldCarpools == <<Carpool_serialize(1, Departure)>>

Leads == {1, 4}    \* rappel, in minutes

RemindDates == {Departure - l * Minute : l \in Leads}

OldReminders ==
    {<<>>} \cup {<<Reminder(OldLastId, Departure, d, 1, 1, 1)>> : d \in RemindDates}

Init ==
    /\ now = 0
    /\ lastId = OldLastId
    /\ carpoolLog = OldCarpools
    /\ reminderLog \in OldReminders
    /\ reminders = <<>>
    /\ tasks = {}
    /\ nextTick = 0
    /\ pc = [p \in Procs |-> IF p = "main" THEN "off" ELSE "idle"]
    /\ todo = [p \in Procs |-> <<>>]
    /\ acc = [p \in Procs |-> <<>>]
    /\ ret = [p \in Procs |-> NoLoop]
    /\ victim = [p \in Procs |-> <<>>]
    /\ target = [p \in Procs |-> 0]
    /\ cancelled = {}
    /\ res = NoCall
    /\ LaterIdle

Next ==
    \/ run
    \/ mainloop
    \/ \E p \in Callers, c \in {0, 1} : fetch_all(p, None, c)
    \/ \E p \in Procs : from_message(p) /\ UNCHANGED frame
    \/ \E p \in Callers, d \in RemindDates :
           /\ d > now
           /\ create(p, Departure, d, 1, 1, 1)
    \/ \E p \in Callers : message_delete(p) /\ UNCHANGED frame
    \/ \E k \in tasks : inner_callback(k)
    \/ \E k \in tasks : process(k)
    \/ \E k \in tasks : process_delete(k)
    \/ Advance

Spec == Init /\ [][Next]_vars

\* The event loop is fair to what is ready to run: the clock moves on, a
\* sleep that has ended resumes its coroutine.
FairSpec ==
    /\ Spec
    /\ WF_vars(Advance)
    /\ WF_vars(mainloop)
    /\ WF_vars(\E k \in tasks : inner_callback(k))

----------------------------------------------------------------------------
(* Properties of the reminder store and scheduler, checked under Spec      *)

CacheIds == {reminders[i].id : i \in 1..Len(reminders)}

\* the timer of the task is pending or its callback is running
Live(k) == k.st \in {"sleep", "callback"}

\* C4 as stated: no reminder is both in the pending cache and armed in the
\* task pool (timer pending or callback running), and no reminder is armed
\* twice.
C4_PendingNotArmed ==
    /\ \A k \in tasks : Live(k) => k.rem.id \notin CacheIds
    /\ \A k1, k2 \in tasks :
           (Live(k1) /\ Live(k2) /\ k1.rem.id = k2.rem.id) => k1 = k2

\* a Reminder.delete of the reminder id has begun or ended in the new state
DeleteOf(id) ==
    \/ id \notin Ids(reminderLog')
    \/ \E p \in Callers : pc'[p] = "del" /\ victim'[p][1].id = id
    \/ \E k \in tasks' : k.rem.id = id /\ k.st = "delete"

\* C5 as stated: a reminder of the pending cache that is neither deleted
\* nor orphaned stays in the pending cache until a poll tick arms it: no
\* step of another store operation removes it.
C5_StaysPending ==
    [][\A i \in 1..Len(reminders) :
           LET r == reminders[i]
           IN  (/\ ~DeleteOf(r.id)
                /\ fetch_result(carpoolLog, r.source, now).value # <<>>)
               => \/ r.id \in {reminders'[j].id : j \in 1..Len(reminders')}
                  \/ \E k \in tasks' \ tasks : k.rem.id = r.id]_vars

\* C6: a pass of mainloop at time now arms exactly the reminders of the
\* pending cache with remind_date - now < 5 minutes, each with the delay
\* remind_date - now (a timer with a delay <= 0 ends at once), and removes
\* them from the cache; it leaves the others in the cache, not armed.
C6_PollTick ==
    [][nextTick' # nextTick =>
          LET new == tasks' \ tasks
              after == {reminders'[j].id : j \in 1..Len(reminders')}
          IN  /\ \A k \in new :
                     /\ k.rem.remind_date - now < 5 * 60
                     /\ k.st = "sleep"
                     /\ k.armed_at = now
                     /\ k.delay = k.rem.remind_date - now
                     /\ k.due = IF k.rem.remind_date <= now THEN now
                                ELSE k.rem.remind_date
                     /\ k.rem.id \notin after
              /\ \A j \in 1..Len(reminders') :
                     /\ reminders'[j].remind_date - now >= 5 * 60
                     /\ \A k \in new : k.rem.id # reminders'[j].id
              /\ pc["main"] = "sleep" =>
                     \A i \in 1..Len(reminders) :
                         IF reminders[i].remind_date - now < 5 * 60
                         THEN \E k \in new : k.rem = reminders[i]
                         ELSE reminders[i].id \in after]_vars

\* C6 witness: a pass has just armed one reminder with a delay > 0 and left
\* another one, due 5 minutes later or more, in the pending cache.
C6_Witness ==
    /\ nextTick = now + PollInterval
    /\ \E k \in tasks : k.st = "sleep" /\ k.armed_at = now /\ k.delay > 0
    /\ \E i \in 1..Len(reminders) : reminders[i].remind_date - now >= PollInterval

\* the tasks of the reminders created during this run that have fired
FiredNew == {k \in tasks : k.st # "sleep" /\ k.rem.id > OldLastId}

\* C7 as stated: a reminder created with a remind_date in the future fires
\* at its remind_date, not earlier and not later.
C7_FiresAtRemindDate ==
    \A k \in FiredNew : k.fired_at = k.rem.remind_date

\* C7 amended: a reminder never fires before its remind_date; it fires at
\* its remind_date when the pass that arms it runs before that date, and at
\* the time of that pass, late, when the pass runs after it.
C7_FiresNotBefore ==
    \A k \in FiredNew :
        /\ k.fired_at >= k.rem.remind_date
        /\ k.armed_at <= k.rem.remind_date => k.fired_at = k.rem.remind_date
        /\ k.armed_at > k.rem.remind_date => k.fired_at = k.armed_at

\* C7 witness: a reminder created during the run was armed before its
\* remind_date and has fired exactly at it.
C7_Witness ==
    \E k \in FiredNew :
        k.armed_at < k.rem.remind_date /\ k.fired_at = k.rem.remind_date

\* C8: once a reminder is armed its timer always ends in one call of the
\* notification callback, also when the reminder is deleted or its message
\* removed in between: a sleeping task is never dropped and leaves the
\* sleep only by calling the callback, again and again no task is left
\* sleeping (so each armed task has called it), and a task that has called
\* the callback never sleeps again.
C8_ArmedFires ==
    /\ []<>(\A k \in tasks : k.st # "sleep")
    /\ [][\A k \in tasks :
              /\ k.st = "sleep" =>
                     (k \in tasks' \/
                      [k EXCEPT !.st = "callback", !.fired_at = now] \in tasks')
              /\ k.st # "sleep" =>
                     \A n \in tasks' :
                         (n.rem.id = k.rem.id /\ n.armed_at = k.armed_at)
                             => n.st # "sleep"]_vars

\* C8 witness: the callback of an armed reminder runs although the
\* reminder's message was deleted while the timer was pending.
C8_Witness ==
    \E k \in tasks :
        /\ k.st = "callback"
        /\ k.rem.id \notin Ids(reminderLog)
        /\ k.armed_at < k.fired_at

\* C9 as stated: a reminder whose Reminder.delete a command handler
\* completed before any pass armed it never fires afterwards.
C9_CancelledNeverFires ==
    \A k \in tasks : k.rem.id \in cancelled => k.st = "sleep"

\* C10 as stated: the firing path calls the callback first and deletes the
\* message only after the callback has returned, and after a completed
\* firing the message is absent from the log and the reminder absent from
\* the pending cache.
C10_CallbackThenDelete ==
    [][\A k \in tasks :
           /\ (Live(k) /\ k \notin tasks' /\ k.rem.id \in Ids(reminderLog))
                  => k.rem.id \in Ids(reminderLog')
           /\ (k.st = "delete" /\ k \notin tasks' /\ k.rem.id \in Ids(reminderLog))
                  => /\ k.rem.id \notin Ids(reminderLog')
                     /\ k.rem.id \notin {reminders'[j].id : j \in 1..Len(reminders')}]_vars

----------------------------------------------------------------------------
(* Properties of the carpool store, checked under SpecCarpool              *)

IsRead == res.op \in {"fetch_all", "fetch"}

\* the messages the last call passed to Carpool.from_message
Examined == {m \in Range(res.before) : m.id \in Range(res.examined)}

DateReadable(m) == m.nf = CarpoolArity /\ m.dateOk

Malformed(m) == m.nf # CarpoolArity \/ ~m.dateOk \/ ~m.restOk

\* the messages of the last call's channel whose id ends with the short id
Matches == {m \in Range(res.before) : EndsWith(m.id, res.arg[1])}

NewestMatch == CHOOSE m \in Matches : \A o \in Matches : o.id <= m.id

\* C1 as stated: a carpool whose departure timestamp is <= now (the boundary
\* departure = now included) is never returned by fetch_all or fetch, and
\* after the read that met it its message is no longer in the channel.
C1_ExpiredAtOrBeforeNow ==
    IsRead =>
        \A m \in Examined :
            (DateReadable(m) /\ m.date <= res.at) =>
                (m \notin Range(res.value) /\ m.id \notin Ids(carpoolLog))

\* C1 amended: a carpool whose departure timestamp is < now when a read
\* decodes it is never returned and its message is deleted by that read; a
\* carpool departing exactly now is not expired: its message is kept, and it
\* is returned when the call ends normally and the record is well formed.
C1_ExpiredStrictlyBeforeNow ==
    IsRead =>
        \A m \in Examined :
            /\ (DateReadable(m) /\ m.date < res.at) =>
                   (m \notin Range(res.value) /\ m.id \notin Ids(carpoolLog))
            /\ (DateReadable(m) /\ m.date = res.at) =>
                   /\ m.id \in Ids(carpoolLog)
                   /\ (res.out = "ok" /\ m.restOk) => m \in Range(res.value)

\* C1 witness: one read deleted a carpool that departed before now and
\* returned one departing exactly now.
C1_Witness ==
    /\ IsRead
    /\ \E m \in Examined :
           DateReadable(m) /\ m.date < res.at /\ m.id \notin Ids(carpoolLog)
    /\ \E m \in Examined :
           DateReadable(m) /\ m.date = res.at /\ m \in Range(res.value)

\* C2 as stated: a malformed entry is never surfaced as an error: the read
\* ends normally, the entry is not returned and its message is deleted.
C2_MalformedNeverSurfaced ==
    IsRead =>
        /\ res.out = "ok"
        /\ \A m \in Examined :
               Malformed(m) =>
                   (m \notin Range(res.value) /\ m.id \notin Ids(carpoolLog))

\* C3 as stated: when several entries have an id ending with shortId,
\* fetch(shortId) returns the most recently created of them.
C3_ReturnsNewestMatch ==
    (res.op = "fetch" /\ Cardinality(Matches) >= 2) =>
        res.value = <<NewestMatch>>

\* C3 amended: when several entries have an id ending with shortId,
\* fetch(shortId) decodes only the most recently created of them; it returns
\* that one when it is well formed and not expired (departure >= now) and
\* no record otherwise; it never returns an older match.
C3_OnlyNewestMatch ==
    (res.op = "fetch" /\ Cardinality(Matches) >= 2) =>
        /\ res.examined = <<NewestMatch.id>>
        /\ (~Malformed(NewestMatch) /\ NewestMatch.date >= res.at) =>
               res.value = <<NewestMatch>>
        /\ (Malformed(NewestMatch) \/ NewestMatch.date < res.at) =>
               res.value = <<>>
        /\ \A m \in Matches : m # NewestMatch => m \notin Range(res.value)

\* C3 witness: fetch met two matching entries and returned the newer one.
C3_Witness ==
    /\ res.op = "fetch"
    /\ Cardinality(Matches) >= 2
    /\ res.value = <<NewestMatch>>

----------------------------------------------------------------------------
(* The scheduler across a restart of the process.  The channels keep their *)
(* messages; what the process held in memory (the pending cache, the task  *)
(* pool, every coroutine) is lost, and on_ready starts Database.run again. *)
(* The carpool departs within the run or after it.                         *)

MaxRestarts == 1      \* restarts of the process in one behaviour

LifeDepartures == {PollInterval, MaxTime + Minute}

LifeRemindDates == {Minute, PollInterval - Minute}

InitLife ==
    /\ now = 0
    /\ lastId = OldLastId
    /\ carpoolLog \in {<<Carpool_serialize(1, d)>> : d \in LifeDepartures}
    /\ reminderLog \in
           {<<Reminder(OldLastId, carpoolLog[1].date, d, 1, 1, 1)>> :
                d \in LifeRemindDates}
    /\ reminders = <<>>
    /\ tasks = {}
    /\ nextTick = 0
    /\ pc = [p \in Procs |-> IF p = "main" THEN "off" ELSE "idle"]
    /\ todo = [p \in Procs |-> <<>>]
    /\ acc = [p \in Procs |-> <<>>]
    /\ ret = [p \in Procs |-> NoLoop]
    /\ victim = [p \in Procs |-> <<>>]
    /\ target = [p \in Procs |-> 0]
    /\ cancelled = {}
    /\ res = NoCall
    /\ LaterIdle

\* the process ends (is killed, crashes) and is started again: client.run
\* builds a new client, whose on_ready builds new databases with an empty
\* pending cache and an empty task pool
restart ==
    /\ boots < MaxRestarts
    /\ pc["main"] # "off"
    /\ boots' = boots + 1
    /\ UNCHANGED call
    /\ reminders' = <<>>
    /\ tasks' = {}
    /\ nextTick' = 0
    /\ pc' = [p \in Procs |-> IF p = "main" THEN "off" ELSE "idle"]
    /\ todo' = [p \in Procs |-> <<>>]
    /\ acc' = [p \in Procs |-> <<>>]
    /\ ret' = [p \in Procs |-> NoLoop]
    /\ victim' = [p \in Procs |-> <<>>]
    /\ target' = [p \in Procs |-> 0]
    /\ UNCHANGED <<now, lastId, carpoolLog, reminderLog, cancelled, res,
                   rankLog, frame, fired>>

NextLife ==
    \/ run
    \/ mainloop
    \/ fetch_all("c1", None, 0)
    \/ \E p \in Procs : from_message(p) /\ UNCHANGED frame
    \/ \E k \in tasks : inner_callback(k)
    \/ \E k \in tasks : process(k)
    \/ \E k \in tasks : process_delete(k)
    \/ Advance
    \/ restart

SpecLife == InitLife /\ [][NextLife]_vars

\* The event loop is fair to what is ready to run, the chat service answers
\* every request, and a process that was restarted does start.
FairLife ==
    /\ SpecLife
    /\ WF_vars(Advance)
    /\ WF_vars(run)
    /\ WF_vars(mainloop)
    /\ WF_vars(from_message("main") /\ UNCHANGED frame)
    /\ WF_vars(\E k \in tasks : inner_callback(k))
    /\ WF_vars(\E k \in tasks : process(k))
    /\ WF_vars(\E k \in tasks : process_delete(k))

----------------------------------------------------------------------------
(* Properties of the scheduler across a restart, checked under FairLife    *)

\* the ids of the reminder messages that leave the channel in this step
Dropped == Ids(reminderLog) \ Ids(reminderLog')

\* the reminder message of that id
MsgOf(id) == CHOOSE m \in Range(reminderLog) : m.id = id

\* the converter finds no carpool for the reminder's source
Unresolved(m) == fetch_result(carpoolLog, m.source, now).value = <<>>

\* C11 as stated: after a restart a stored reminder that has not fired is
\* reloaded and armed again, and is never dropped without firing, whatever
\* the time of the restart: no reminder message leaves the log before the
\* reminder's callback has been invoked.
C11_NeverDroppedUnfired ==
    [][boots >= 1 => \A id \in Dropped : id \in fired]_vars

\* C11 amended: after a restart a stored reminder whose source carpool
\* still resolves when the startup load reads it is reloaded (when the load
\* ends it is in the pending cache or armed) and it fires, possibly late;
\* a reminder leaves the log unfired only when its carpool no longer
\* resolves (it departed before the read), and every reminder ends fired
\* or dropped so.
C11_ReloadedUnlessOrphaned ==
    /\ [][\A id \in Dropped : id \in fired \/ Unresolved(MsgOf(id))]_vars
    /\ [][(pc["main"] # "sleep" /\ pc'["main"] = "sleep") =>
              \A id \in Ids(reminderLog') :
                  \/ id \in {reminders'[j].id : j \in 1..Len(reminders')}
                  \/ Armed(tasks', id)]_vars
    /\ <>[](reminderLog = <<>>)

\* C11 witness: after a restart the reminder was loaded again after its
\* remind date, armed with a delay <= 0, and its callback runs, late.
C11_Witness ==
    /\ boots = 1
    /\ call = NoEval
    /\ \E k \in tasks :
           /\ k.st = "callback"
           /\ k.armed_at = k.fired_at
           /\ k.fired_at > k.rem.remind_date

----------------------------------------------------------------------------
(* Reminders whose carpool is gone: the owner deletes the carpool          *)
(* (Carpool.delete), or it departs; the reminder store is read by          *)
(* fetch_all and by fetch.                                                 *)

\* Carpool.delete: await self.message.delete()
Carpool_delete(id) ==
    /\ pc["main"] # "off"
    /\ id \in Ids(carpoolLog)
    /\ carpoolLog' = RemoveMsg(carpoolLog, id)
    /\ UNCHANGED <<now, lastId, schedVars, res, cmdVars, fired>>

\* Database.fetch(id) of the reminder store: the newest message whose id
\* ends with id is decoded by Reminder.from_message, which deletes the
\* reminder when the converter finds no carpool
fetch(id) ==
    /\ pc["main"] # "off"
    /\ LET hit == FirstMatch(history(reminderLog, None), id)
       IN  /\ hit # None
           /\ LET m == hit[1]
                  src == fetch_result(carpoolLog, m.source, now)
              IN  /\ carpoolLog' = src.log
                  /\ IF src.out = "ok" /\ src.value = <<>>
                     THEN /\ reminders' = list_remove(reminders, m.id)
                          /\ reminderLog' = RemoveMsg(reminderLog, m.id)
                     ELSE UNCHANGED <<reminders, reminderLog>>
    /\ UNCHANGED <<now, lastId, tasks, nextTick, pc, todo, acc, ret, victim,
                   target, cancelled, res, cmdVars, fired>>

NextOrphan ==
    \/ NextLife
    \/ Carpool_delete(1)
    \/ fetch(OldLastId)

SpecOrphan == InitLife /\ [][NextOrphan]_vars

----------------------------------------------------------------------------
(* Properties of orphaned reminders, checked under SpecOrphan              *)

\* this step is a read of the reminder store that decodes the message m
ReadOf(m) ==
    \/ \E p \in Procs : pc[p] = "fa" /\ Head(todo[p]) = m /\ from_message(p)
    \/ m \in Range(reminderLog) /\ fetch(m.id)

\* the messages a read can decode in this step
Readable == Range(reminderLog) \cup {Head(todo[p]) : p \in {q \in Procs : pc[q] = "fa"}}

\* the read that decodes a reminder whose carpool does not resolve deletes
\* it from the log and from the pending cache
OrphanDeletedByRead ==
    \A m \in Readable :
        (Unresolved(m) /\ ReadOf(m)) =>
            /\ m.id \notin Ids(reminderLog')
            /\ m.id \notin {reminders'[j].id : j \in 1..Len(reminders')}

\* C12 as stated: a reminder whose carpool no longer resolves is deleted
\* from the log and from the pending cache by the next read that decodes
\* it, and no callback is invoked for a reminder whose carpool does not
\* resolve.
C12_OrphanNeverFires ==
    [][/\ OrphanDeletedByRead
       /\ \A k \in tasks' \ tasks : k.st = "callback" => ~Unresolved(k.rem)]_vars

\* C12 amended: the read that decodes a reminder whose carpool no longer
\* resolves deletes it from the log and from the pending cache, and that
\* read neither arms it nor invokes its callback; a timer armed before
\* still invokes the callback.
C12_OrphanDroppedByRead ==
    [][/\ OrphanDeletedByRead
       /\ \A m \in Readable :
              (Unresolved(m) /\ ReadOf(m)) =>
                  \A k \in tasks' \ tasks : k.rem.id # m.id]_vars

\* C12 witness: a read has deleted the reminder of a deleted or departed
\* carpool, which never fired.
C12_Witness ==
    /\ pc["main"] = "sleep"
    /\ carpoolLog = <<>>
    /\ reminderLog = <<>>
    /\ fired = {}

----------------------------------------------------------------------------
(* The pending cache and the log, checked under Spec                       *)

\* a Reminder.delete of the reminder id ends in this step: the handler's
\* (message_delete) or the one Database.process calls (process_delete)
DeleteEnds(id) ==
    \/ \E p \in Callers :
           pc[p] = "del" /\ victim[p][1].id = id /\ message_delete(p)
    \/ \E k \in tasks : k.st = "delete" /\ k.rem.id = id /\ process_delete(k)

\* C13 as stated: when Reminder.delete has completed the reminder is in
\* neither the log nor the pending cache, and in every reachable state
\* every reminder of the pending cache has its message in the log.
C13_CacheBackedByLog ==
    /\ [](CacheIds \subseteq Ids(reminderLog))
    /\ [][\A id \in OldLastId..(OldLastId + MaxReminders) :
              DeleteEnds(id) =>
                  /\ id \notin Ids(reminderLog')
                  /\ id \notin {reminders'[j].id : j \in 1..Len(reminders')}]_vars

------------------------------------------------------------

----------------------------------------------------------------------------
(* The commands that cancel reminders, main.py: _quitter and _supprimer    *)
(* from the call that changes the carpool to the end of their loop over    *)
(* the reminders, run beside the scheduler.  The carpool channel holds two *)
(* carpools; the reminder channel a reminder of the second one and, for    *)
(* the first one, a reminder of each of two users.                         *)

Users == {1, 2}

Other(u) == CHOOSE v \in Users : v # u

\* a handler's locals: the command, the user who issued it, and how its
\* loop over the reminders ended
NoCmd == [cmd |-> "none", user |-> 0, end |-> "none"]

LeaveCarpools == <<Carpool_serialize(1, Departure), Carpool_serialize(2, Departure)>>

\* the reminders the users asked for when they joined, oldest first
LeaveReminders ==
    {<<Reminder(3, Departure, Departure - 4 * Minute, 2, 1, 2),
       Reminder(4, Departure, Departure - 4 * Minute, u, 1, 1),
       Reminder(5, Departure, Departure - 4 * Minute, Other(u), 1, 1)>> :
         u \in Users}

InitLeave ==
    /\ now = 0
    /\ lastId = 5
    /\ carpoolLog = LeaveCarpools
    /\ reminderLog \in LeaveReminders
    /\ reminders = <<>>
    /\ tasks = {}
    /\ nextTick = 0
    /\ pc = [p \in Procs |-> IF p = "main" THEN "off" ELSE "idle"]
    /\ todo = [p \in Procs |-> <<>>]
    /\ acc = [p \in Procs |-> <<>>]
    /\ ret = [p \in Procs |-> NoLoop]
    /\ victim = [p \in Procs |-> <<>>]
    /\ target = [p \in Procs |-> 0]
    /\ cancelled = {}
    /\ res = NoCall
    /\ rankLog = <<>>
    /\ frame = [p \in Callers |-> NoCmd]
    /\ boots = 0
    /\ call = NoEval
    /\ fired = {}

\* _quitter of user u on the carpool id: carpool.joiners.remove(...), and
\* await carpool.save() answers; the handler goes on to fetch_all
quitter(p, u, id) ==
    /\ pc["main"] # "off"
    /\ pc[p] = "idle"
    /\ id \in Ids(carpoolLog)
    /\ frame' = [frame EXCEPT ![p] = [cmd |-> "quitter", user |-> u, end |-> "none"]]
    /\ target' = [target EXCEPT ![p] = id]
    /\ pc' = [pc EXCEPT ![p] = "call"]
    /\ UNCHANGED <<now, lastId, carpoolLog, reminderLog, reminders, tasks,
                   nextTick, todo, acc, ret, victim, cancelled, res, rankLog,
                   boots, call, fired>>

\* _supprimer of the owner u on the carpool id: await carpool.delete()
\* answers; the handler goes on to fetch_all
supprimer(p, u, id) ==
    /\ pc["main"] # "off"
    /\ pc[p] = "idle"
    /\ id \in Ids(carpoolLog)
    /\ carpoolLog' = RemoveMsg(carpoolLog, id)
    /\ frame' = [frame EXCEPT ![p] = [cmd |-> "supprimer", user |-> u, end |-> "none"]]
    /\ target' = [target EXCEPT ![p] = id]
    /\ pc' = [pc EXCEPT ![p] = "call"]
    /\ UNCHANGED <<now, lastId, reminderLog, reminders, tasks, nextTick, todo,
                   acc, ret, victim, cancelled, res, rankLog, boots, call, fired>>

\* the step of p raises: the converter raises, or message.delete() finds
\* the message gone (NotFound), in the loop or in Reminder.from_message
Raises(p) ==
    \/ pc[p] = "del" /\ victim[p][1].id \notin Ids(reminderLog)
    \/ /\ pc[p] = "fa"
       /\ \/ fetch_result(carpoolLog, Head(todo[p]).source, now).out = "error"
          \/ /\ Unresolved(Head(todo[p]))
             /\ Head(todo[p]).id \notin Ids(reminderLog)

\* the handler of p records how its loop over the reminders ended: by an
\* exception, or normally (the handler goes on to answer the user)
loop_end(p) ==
    frame' = IF p \in Callers /\ pc'[p] = "idle"
             THEN [frame EXCEPT ![p].end = IF Raises(p) THEN "raised" ELSE "ok"]
             ELSE frame

\* for reminder in await client.reminder_database.fetch_all(): the history
\* of the reminder channel is read
handler_fetch_all(p) ==
    /\ p \in Callers
    /\ pc[p] = "call"
    /\ fetch_all_history(p, None)
    /\ loop_end(p)
    /\ UNCHANGED <<now, lastId, carpoolLog, reminderLog, target, cancelled,
                   res, rankLog, boots, call, fired>>

\* the handlers that run a command here; the startup load of on_ready is
\* the other reader of the reminder channel
Leavers == {"c1"}

NextLeave ==
    \/ run
    \/ mainloop
    \/ \E p \in Leavers, u \in Users : quitter(p, u, 1)
    \/ \E p \in Leavers : supprimer(p, 1, 1)
    \/ \E p \in Leavers : handler_fetch_all(p)
    \/ \E p \in Procs : from_message(p) /\ loop_end(p)
    \/ \E p \in Leavers : message_delete(p) /\ loop_end(p)
    \/ \E k \in tasks : inner_callback(k)
    \/ \E k \in tasks : process(k)
    \/ \E k \in tasks : process_delete(k)
    \/ Advance

SpecLeave == InitLeave /\ [][NextLeave]_vars

----------------------------------------------------------------------------
(* Cancellation by command                                                 *)

\* the reminders the program holds: in the reminder channel or in the cache
Stored == Range(reminderLog) \cup Range(reminders)

\* the command cmd of the handler p has ended normally and no other has
\* been started by it since
Done(p, cmd) == frame[p].cmd = cmd /\ frame[p].end = "ok"

\* C14: once a user's leave command on a carpool has completed, neither
\* the reminder channel nor the cache holds a reminder of that user for
\* that carpool.
C14_LeaverHasNoReminder ==
    \A p \in Leavers :
        Done(p, "quitter") =>
            \A m \in Stored : ~(m.user = frame[p].user /\ m.source = target[p])

\* C15: once the owner's delete command on a carpool has completed,
\* neither the reminder channel nor the cache holds a reminder whose source
\* is that carpool.
C15_CarpoolHasNoReminder ==
    \A p \in Leavers :
        Done(p, "supprimer") => \A m \in Stored : m.source # target[p]

----------------------------------------------------------------------------
(* The command layer, main.py: the handlers of /covoiturage creer,         *)
(* modifier, rejoindre, quitter, supprimer and rang, each from await to    *)
(* await, over the carpool, reminder and rank channels.  Two handlers run  *)
(* at a time.  Every handler answers the user with                         *)
(* interaction.response.send_message, an await that changes nothing here:  *)
(* it is taken together with the step before it.                           *)

MaxCommands == 3      \* commands run in one behaviour

\* str(Mention): "<@id>"
Mention_str(id) == <<"<@", id, ">">>

\* Mention(text): int(text.removeprefix("<@").removesuffix(">"))
Mention(text) == text[2]

\* joiners.split(";") of ";".join(map(str, joiners)): the pieces between
\* the separators; the empty text splits into one empty piece
Joiners_str(joiners) ==
    IF joiners = <<>> THEN << <<>> >>
    ELSE [i \in 1..Len(joiners) |-> Mention_str(joiners[i])]

\* list(map(Mention, filter(bool, pieces)))
RECURSIVE Joiners_parse(_)
Joiners_parse(pieces) ==
    IF pieces = <<>> THEN <<>>
    ELSE IF Head(pieces) = <<>> THEN Joiners_parse(Tail(pieces))
    ELSE <<Mention(Head(pieces))>> \o Joiners_parse(Tail(pieces))

\* a Carpool object; id is carpool.message.id
Carpool(id, owner, date, seats, joiners) ==
    [id |-> id, owner |-> owner, date |-> date, seats |-> seats,
     joiners |-> joiners]

\* the message whose content is carpool.serialize()
Carpool_message(c) ==
    [id |-> c.id, nf |-> CarpoolArity, dateOk |-> TRUE, date |-> c.date,
     restOk |-> TRUE, owner |-> Mention_str(c.owner), seats |-> c.seats,
     joiners |-> Joiners_str(c.joiners)]

\* the Carpool that Carpool.from_message builds from a message it accepts
Carpool_decode(m) ==
    Carpool(m.id, Mention(m.owner), m.date, m.seats, Joiners_parse(m.joiners))

\* an edit that reposts: the old message goes and the new one is appended
EditMsg_repost(log, m) ==
    Append(SelectSeq(log, LAMBDA x : x.id # m.id), m)

\* message.edit(content=...): the message of that id gets the new content
EditMsg(log, m) == [i \in 1..Len(log) |-> IF log[i].id = m.id THEN m ELSE log[i]]

\* joiners.remove(x): drops the first element equal to x
list_remove_value(list, x) ==
    LET hits == {i \in 1..Len(list) : list[i] = x}
    IN  IF hits = {} THEN list
        ELSE SubSeq(list, 1, Min(hits) - 1) \o SubSeq(list, Min(hits) + 1, Len(list))

\* interaction.user in carpool.joiners
In(u, joiners) == \E i \in 1..Len(joiners) : joiners[i] = u

\* a Rank object; id is rank.message.id
Rank(id, owner, proposed, participated) ==
    [id |-> id, owner |-> owner, proposed |-> proposed,
     participated |-> participated]

\* the message whose content is rank.serialize()
Rank_message(r) ==
    [id |-> r.id, owner |-> Mention_str(r.owner), proposed |-> r.proposed,
     participated |-> r.participated]

\* Rank.from_message
Rank_decode(m) == Rank(m.id, Mention(m.owner), m.proposed, m.participated)

\* rank Database.fetch(user_id): the first record of the history, newest
\* first, whose owner is user_id
Rank_fetch(log, user_id) ==
    LET h == history(log, None)
        hits == {i \in 1..Len(h) : Rank_decode(h[i]).owner = user_id}
    IN  IF hits = {} THEN None ELSE Some(Rank_decode(h[Min(hits)]))

\* counters that stop at 0
Counted_floor(cmd, r) ==
    [r EXCEPT !.proposed = IF cmd = "creer" THEN @ + 1
                           ELSE IF cmd = "supprimer" /\ @ > 0 THEN @ - 1 ELSE @,
              !.participated = IF cmd = "rejoindre" THEN @ + 1
                               ELSE IF cmd = "quitter" /\ @ > 0 THEN @ - 1 ELSE @]

\* rank.proposed += 1, rank.participated += 1, ... of each handler
Counted(cmd, r) ==
    [r EXCEPT !.proposed = @ + (IF cmd = "creer" THEN 1
                                ELSE IF cmd = "supprimer" THEN 0 - 1 ELSE 0),
              !.participated = @ + (IF cmd = "rejoindre" THEN 1
                                    ELSE IF cmd = "quitter" THEN 0 - 1 ELSE 0)]

\* The locals of a handler: the command and its user, where the handler is
\* (at), how it ended (end), the Carpool its transformer fetched and the
\* message it was decoded from, rappel, what Carpool.delete returned, the
\* Rank that get returned (got) and the Rank as the handler changed it, the
\* number of commands the slot has run, and the command it ran before.
Idle == [cmd |-> "none", user |-> 0, at |-> "idle", end |-> "none",
         carpool |-> None, message |-> None, rappel |-> None, joiners |-> None,
         got |-> None, rank |-> None, n |-> 0,
         prev |-> [cmd |-> "none", user |-> 0, carpool |-> None, end |-> "none"]]

\* a handler slot takes a new command
Begin(p, cmd, u) ==
    [Idle EXCEPT !.cmd = cmd, !.user = u, !.at = "run", !.n = frame[p].n + 1,
                 !.prev = [cmd |-> frame[p].cmd, user |-> frame[p].user,
                           carpool |-> frame[p].carpool, end |-> frame[p].end]]

\* commands run so far
Commands == frame["c1"].n + frame["c2"].n

Free(p) == frame[p].at = "idle" /\ pc[p] = "idle" /\ Commands < MaxCommands

\* the handler ends: by an exception (end is "raised" or "unknown"), by
\* the early return of _rejoindre ("full") or at its last line ("ok")
Ended(f, how) == [f EXCEPT !.at = "idle", !.end = how]

\* _creer: await client.carpool_database.create(...) answers
Covoiturage_creer(p, u, places) ==
    /\ Free(p)
    /\ lastId' = lastId + 1
    /\ carpoolLog' = Append(carpoolLog,
                            Carpool_message(Carpool(lastId + 1, u, Departure, places, <<>>)))
    /\ frame' = [frame EXCEPT ![p] = [Begin(p, "creer", u) EXCEPT !.at = "rank"]]
    /\ UNCHANGED <<now, reminderLog, reminders, tasks, nextTick, pc, todo, acc,
                   ret, victim, target, cancelled, res, rankLog, boots, call, fired>>

\* what carpool_database.fetch(id) decodes for the transformer; the record
\* without a message stands for None
Fetched(id) ==
    LET r == fetch_result(carpoolLog, id, now)
    IN  IF r.value = <<>> THEN Carpool(0, 0, 0, 0, <<>>) ELSE Carpool_decode(r.value[1])

\* CarpoolTransformer.transform: carpool_database.fetch(id) answers; the
\* test of the transformer (ok) and the handler's code up to its first
\* await follow, which leave the handler's locals as next.
transform(p, cmd, u, id, ok, next) ==
    /\ Free(p)
    /\ LET r == fetch_result(carpoolLog, id, now)
           f == Begin(p, cmd, u)
       IN  /\ carpoolLog' = r.log
           /\ frame' = [frame EXCEPT ![p] =
                  IF r.out = "error" THEN Ended(f, "raised")
                  ELSE IF r.value = <<>> \/ ~ok THEN Ended(f, "unknown")
                  ELSE [next EXCEPT !.message = r.value]]
    /\ UNCHANGED <<now, lastId, reminderLog, reminders, tasks, nextTick, pc,
                   todo, acc, ret, victim, target, cancelled, res, rankLog,
                   boots, call, fired>>

\* _modifier with places only (OwnedCarpoolTransformer): carpool.seats = places
Covoiturage_modifier(p, u, id, places) ==
    LET c == Fetched(id)
        f == Begin(p, "modifier", u)
    IN  transform(p, "modifier", u, id, c.owner = u,
                  [f EXCEPT !.carpool = Some([c EXCEPT !.seats = places]),
                            !.at = "save"])

\* a _rejoindre that refuses only when the joiners exceed the seats
Covoiturage_rejoindre_overbook(p, u, id, rappel) ==
    LET c == Fetched(id)
        f == Begin(p, "rejoindre", u)
    IN  transform(p, "rejoindre", u, id, ~In(u, c.joiners),
                  IF Len(c.joiners) > c.seats
                  THEN Ended([f EXCEPT !.carpool = Some(c)], "full")
                  ELSE [f EXCEPT !.carpool = Some([c EXCEPT !.joiners = Append(@, u)]),
                                 !.rappel = rappel, !.at = "save"])

\* _rejoindre (UnjoinedCarpoolTransformer): a full carpool is refused,
\* else carpool.joiners.append(Mention(interaction.user))
Covoiturage_rejoindre(p, u, id, rappel) ==
    LET c == Fetched(id)
        f == Begin(p, "rejoindre", u)
    IN  transform(p, "rejoindre", u, id, ~In(u, c.joiners),
                  IF Len(c.joiners) >= c.seats
                  THEN Ended([f EXCEPT !.carpool = Some(c)], "full")
                  ELSE [f EXCEPT !.carpool = Some([c EXCEPT !.joiners = Append(@, u)]),
                                 !.rappel = rappel, !.at = "save"])

\* _quitter (JoinedCarpoolTransformer): carpool.joiners.remove(Mention(user))
Covoiturage_quitter(p, u, id) ==
    LET c == Fetched(id)
        f == Begin(p, "quitter", u)
    IN  transform(p, "quitter", u, id, In(u, c.joiners),
                  [f EXCEPT !.carpool = Some([c EXCEPT !.joiners = list_remove_value(@, u)]),
                            !.at = "save"])

\* _supprimer (OwnedCarpoolTransformer)
Covoiturage_supprimer(p, u, id) ==
    LET c == Fetched(id)
        f == Begin(p, "supprimer", u)
    IN  transform(p, "supprimer", u, id, c.owner = u,
                  [f EXCEPT !.carpool = Some(c), !.at = "delete"])

\* _rank: await client.rank_database.fetch_all() answers
Covoiturage_rank(p, u) ==
    /\ Free(p)
    /\ frame' = [frame EXCEPT ![p] = [Begin(p, "rang", u) EXCEPT !.at = "rank"]]
    /\ UNCHANGED <<now, lastId, carpoolLog, reminderLog, reminders, tasks,
                   nextTick, pc, todo, acc, ret, victim, target, cancelled, res,
                   rankLog, boots, call, fired>>

\* await carpool.save() answers: message.edit; NotFound when the message is
\* gone.  _modifier ends, _rejoindre goes on to the reminder or to the rank,
\* _quitter to the reminders of the carpool.
Carpool_save(p) ==
    /\ frame[p].at = "save"
    /\ LET f == frame[p]
           c == f.carpool[1]
       IN  IF c.id \notin Ids(carpoolLog)
           THEN /\ frame' = [frame EXCEPT ![p] = Ended(f, "raised")]
                /\ UNCHANGED <<carpoolLog, pc, target>>
           ELSE /\ carpoolLog' = EditMsg(carpoolLog, Carpool_message(c))
                /\ frame' = [frame EXCEPT ![p] =
                       IF f.cmd = "modifier" THEN Ended(f, "ok")
                       ELSE IF f.cmd = "quitter" THEN [f EXCEPT !.at = "loop"]
                       ELSE IF f.rappel = None THEN [f EXCEPT !.at = "rank"]
                       ELSE [f EXCEPT !.at = "remind"]]
                /\ pc' = [pc EXCEPT ![p] = IF f.cmd = "quitter" THEN "call" ELSE @]
                /\ target' = [target EXCEPT ![p] = IF f.cmd = "quitter" THEN c.id ELSE @]
    /\ UNCHANGED <<now, lastId, reminderLog, reminders, tasks, nextTick, todo,
                   acc, ret, victim, cancelled, res, rankLog, boots, call, fired>>

\* _rejoindre: await client.reminder_database.create(...) answers
rejoindre_create(p) ==
    /\ frame[p].at = "remind"
    /\ lastId' = lastId + 1
    /\ LET c == frame[p].carpool[1]
           r == Reminder(lastId + 1, c.date, c.date - frame[p].rappel[1] * Minute,
                         frame[p].user, 1, c.id)
       IN  /\ reminderLog' = Append(reminderLog, r)
           /\ reminders' = Append(reminders, r)
    /\ frame' = [frame EXCEPT ![p].at = "rank"]
    /\ UNCHANGED <<now, carpoolLog, tasks, nextTick, pc, todo, acc, ret, victim,
                   target, cancelled, res, rankLog, boots, call, fired>>

\* _supprimer: joiners = await carpool.delete() answers; NotFound when the
\* message is gone
supprimer_delete(p) ==
    /\ frame[p].at = "delete"
    /\ LET f == frame[p]
           c == f.carpool[1]
       IN  IF c.id \notin Ids(carpoolLog)
           THEN /\ frame' = [frame EXCEPT ![p] = Ended(f, "raised")]
                /\ UNCHANGED <<carpoolLog, pc, target>>
           ELSE /\ carpoolLog' = RemoveMsg(carpoolLog, c.id)
                /\ frame' = [frame EXCEPT ![p] = [f EXCEPT !.joiners = Some(c.joiners),
                                                           !.at = "loop"]]
                /\ pc' = [pc EXCEPT ![p] = "call"]
                /\ target' = [target EXCEPT ![p] = c.id]
    /\ UNCHANGED <<now, lastId, reminderLog, reminders, tasks, nextTick, todo,
                   acc, ret, victim, cancelled, res, rankLog, boots, call, fired>>

\* the loop over the carpool's reminders is over: the handler goes on to
\* the rank, or has ended by the exception
loop_exit(p) ==
    frame' = IF p \in Callers /\ pc'[p] = "idle"
             THEN [frame EXCEPT ![p] = IF Raises(p) THEN Ended(@, "raised")
                                       ELSE [@ EXCEPT !.at = "rank"]]
             ELSE frame

\* the handler's fetch_all: channel.history() of the reminder channel
loop_fetch_all(p) ==
    /\ pc[p] = "call"
    /\ fetch_all_history(p, None)
    /\ loop_exit(p)
    /\ UNCHANGED <<now, lastId, carpoolLog, reminderLog, target, cancelled,
                   res, rankLog, boots, call, fired>>

\* rank_database.get: rank = await self.fetch(owner.id) answers.  A record
\* found is returned and the handler changes it; _rank only shows it.
Rank_get(p) ==
    /\ frame[p].at = "rank"
    /\ LET f == frame[p]
           r == Rank_fetch(rankLog, f.user)
       IN  frame' = [frame EXCEPT ![p] =
               IF r = None THEN [f EXCEPT !.at = "send"]
               ELSE IF f.cmd = "rang" THEN Ended([f EXCEPT !.got = r, !.rank = r], "ok")
               ELSE [f EXCEPT !.got = r, !.rank = Some(Counted(f.cmd, r[1])),
                              !.at = "rsave"]]
    /\ UNCHANGED <<now, lastId, carpoolLog, reminderLog, reminders, tasks,
                   nextTick, pc, todo, acc, ret, victim, target, cancelled, res,
                   rankLog, boots, call, fired>>

\* rank_database.get: rank_.message = await self.channel.send(...) answers
Rank_send(p) ==
    /\ frame[p].at = "send"
    /\ lastId' = lastId + 1
    /\ LET f == frame[p]
           r == Rank(lastId + 1, f.user, 0, 0)
       IN  /\ rankLog' = Append(rankLog, Rank_message(r))
           /\ frame' = [frame EXCEPT ![p] =
                  IF f.cmd = "rang" THEN Ended([f EXCEPT !.got = Some(r), !.rank = Some(r)], "ok")
                  ELSE [f EXCEPT !.got = Some(r), !.rank = Some(Counted(f.cmd, r)),
                                 !.at = "rsave"]]
    /\ UNCHANGED <<now, carpoolLog, reminderLog, reminders, tasks, nextTick, pc,
                   todo, acc, ret, victim, target, cancelled, res, boots, call, fired>>

\* await rank.save() answers: message.edit
Rank_save(p) ==
    /\ frame[p].at = "rsave"
    /\ rankLog' = EditMsg(rankLog, Rank_message(frame[p].rank[1]))
    /\ frame' = [frame EXCEPT ![p] = Ended(@, "ok")]
    /\ UNCHANGED <<now, lastId, carpoolLog, reminderLog, reminders, tasks,
                   nextTick, pc, todo, acc, ret, victim, target, cancelled, res,
                   boots, call, fired>>

\* places
Seats == {1, 2}

Rappels == {None, Some(1)}

\* ids a user may type: the carpool of the start and the next one created
TypedIds == {2, 12}

\* The bot has been started on a carpool channel that holds one carpool of
\* user 1 with two seats, taken by users 3 and 2 in that order, a reminder
\* channel that holds user 2's reminder for it, and an empty rank channel;
\* the startup load has cached the reminder and mainloop sleeps.
InitCmd ==
    /\ now = 0
    /\ lastId = 11
    /\ carpoolLog = <<Carpool_message(Carpool(2, 1, Departure, 2, <<3, 2>>))>>
    /\ reminderLog = <<Reminder(3, Departure, Departure - Minute, 2, 1, 2)>>
    /\ reminders = reminderLog
    /\ tasks = {}
    /\ nextTick = PollInterval
    /\ pc = [p \in Procs |-> IF p = "main" THEN "sleep" ELSE "idle"]
    /\ todo = [p \in Procs |-> <<>>]
    /\ acc = [p \in Procs |-> <<>>]
    /\ ret = [p \in Procs |-> NoLoop]
    /\ victim = [p \in Procs |-> <<>>]
    /\ target = [p \in Procs |-> 0]
    /\ cancelled = {}
    /\ res = NoCall
    /\ rankLog = <<>>
    /\ frame = [p \in Callers |-> Idle]
    /\ boots = 0
    /\ call = NoEval
    /\ fired = {}

NextCmd ==
    \/ \E p \in Callers, u \in Users, n \in Seats : Covoiturage_creer(p, u, n)
    \/ \E p \in Callers, u \in Users, id \in TypedIds, n \in Seats :
           Covoiturage_modifier(p, u, id, n)
    \/ \E p \in Callers, u \in Users, id \in TypedIds, r \in Rappels :
           Covoiturage_rejoindre(p, u, id, r)
    \/ \E p \in Callers, u \in Users, id \in TypedIds : Covoiturage_quitter(p, u, id)
    \/ \E p \in Callers, u \in Users, id \in TypedIds : Covoiturage_supprimer(p, u, id)
    \/ \E p \in Callers, u \in Users : Covoiturage_rank(p, u)
    \/ \E p \in Callers : Carpool_save(p)
    \/ \E p \in Callers : rejoindre_create(p)
    \/ \E p \in Callers : supprimer_delete(p)
    \/ \E p \in Callers : loop_fetch_all(p)
    \/ \E p \in Callers : from_message(p) /\ loop_exit(p)
    \/ \E p \in Callers : message_delete(p) /\ loop_exit(p)
    \/ \E p \in Callers : Rank_get(p)
    \/ \E p \in Callers : Rank_send(p)
    \/ \E p \in Callers : Rank_save(p)

SpecCmd == InitCmd /\ [][NextCmd]_vars

----------------------------------------------------------------------------
(* Carpools and their joiners                                              *)

\* the users a stored message names as joiners, in the order it names them
StoredJoiners(m) ==
    LET named == SelectSeq(m.joiners, LAMBDA x : x # <<>>)
    IN  [i \in 1..Len(named) |-> named[i][2]]

\* the message of the carpool channel with the id
Entry(log, id) == CHOOSE m \in Range(log) : m.id = id

\* the handler p has deleted a carpool: Carpool.delete has returned
Deleted(p) == frame[p].cmd = "supprimer" /\ frame[p].joiners # None

\* what Carpool.delete returned is the joiner list of the message the
\* carpool was fetched from, in its order
ReturnedInOrder(p) == frame[p].joiners[1] = StoredJoiners(frame[p].message[1])

JoinStarts(p) ==
    /\ frame'[p].n = frame[p].n + 1
    /\ frame'[p].cmd = "rejoindre"
    /\ frame'[p].message # None

\* the step is the answer to the carpool.save() of a _rejoindre of p
JoinSaves(p) ==
    /\ frame[p].cmd = "rejoindre"
    /\ frame[p].at = "save"
    /\ frame'[p].at # "save"

\* C17: a _rejoindre on a carpool whose joiners fill its seats is refused
\* and changes none of the three logs; one on a carpool with a free seat
\* (as after a joiner left) by a user who is not a joiner goes on to save
\* the carpool with that user appended at the end of its joiners.
C17_FullRefusedElseAppended ==
    [][\A p \in Callers :
          /\ JoinStarts(p) =>
                LET m == frame'[p].message[1]
                IN  IF Len(StoredJoiners(m)) >= m.seats
                    THEN /\ frame'[p].end = "full"
                         /\ frame'[p].at = "idle"
                         /\ carpoolLog' = carpoolLog
                         /\ reminderLog' = reminderLog
                         /\ rankLog' = rankLog
                    ELSE /\ frame'[p].at = "save"
                         /\ frame'[p].end = "none"
          /\ (JoinSaves(p) /\ frame[p].carpool[1].id \in Ids(carpoolLog)) =>
                LET was == StoredJoiners(frame[p].message[1])
                    m == Entry(carpoolLog', frame[p].carpool[1].id)
                IN  /\ ~In(frame[p].user, was)
                    /\ StoredJoiners(m) = Append(was, frame[p].user)
                    /\ frame'[p].end = "none"
                    /\ frame'[p].at \in {"remind", "rank"}]_vars

\* a user was refused by the full carpool, a joiner then left it, and the
\* same user's next _rejoindre has been saved: the user is the last joiner
C17_Witness ==
    \E p \in Callers, q \in Callers :
        /\ frame[p].cmd = "rejoindre"
        /\ frame[p].at \in {"remind", "rank"}
        /\ frame[p].prev.cmd = "rejoindre"
        /\ frame[p].prev.end = "full"
        /\ frame[p].prev.user = frame[p].user
        /\ frame[p].prev.carpool[1].id = frame[p].carpool[1].id
        /\ frame[q].cmd = "quitter"
        /\ frame[q].carpool # None
        /\ frame[q].carpool[1].id = frame[p].carpool[1].id
        /\ frame[q].at \in {"loop", "rank", "send", "rsave", "idle"}
        /\ frame[p].carpool[1].id \in Ids(carpoolLog)
        /\ StoredJoiners(Entry(carpoolLog, frame[p].carpool[1].id)) = <<3, frame[p].user>>

\* C18: every carpool of the carpool channel has at most as many joiners
\* as seats.
C18_JoinersWithinSeats ==
    \A m \in Range(carpoolLog) : Len(StoredJoiners(m)) <= m.seats

----------------------------------------------------------------------------
(* Ranks                                                                   *)

\* the rank records of the channel whose owner is u
RanksOf(u) == {m \in Range(rankLog) : Mention(m.owner) = u}

Zero(r) == r.proposed = 0 /\ r.participated = 0

\* the step is the return of a get of p
GetReturns(p) == frame[p].got = None /\ frame'[p].got # None

\* the step is the answer to the rank.save() of p
SaveEnds(p) == frame[p].at = "rsave" /\ frame'[p].at = "idle"

\* C19: a get for an owner whose records, if any, are all 0/0 (a first-
\* time owner, nothing saved yet) returns a record reading 0/0; and once a
\* changed record has been saved, a fresh get for its owner returns the
\* saved values.
C19_GetSeesSave ==
    [][\A p \in Callers :
          /\ (GetReturns(p) /\ \A m \in RanksOf(frame[p].user) : Zero(m)) =>
                Zero(frame'[p].got[1])
          /\ SaveEnds(p) =>
                LET r == Rank_fetch(rankLog', frame[p].user)
                IN  /\ r # None
                    /\ r[1].proposed = frame[p].rank[1].proposed
                    /\ r[1].participated = frame[p].rank[1].participated]_vars

\* C20: the rank channel holds at most one record per owner.
C20_OneRankPerOwner ==
    \A u \in Users : Cardinality(RanksOf(u)) <= 1

\* what a command adds to the proposed and to the participated count
Step(cmd) ==
    IF cmd = "creer" THEN <<1, 0>>
    ELSE IF cmd = "supprimer" THEN <<0 - 1, 0>>
    ELSE IF cmd = "rejoindre" THEN <<0, 1>>
    ELSE IF cmd = "quitter" THEN <<0, 0 - 1>>
    ELSE <<0, 0>>

\* the message of the rank channel with the id
RankEntry(log, id) == CHOOSE m \in Range(log) : m.id = id

\* C21: the counters are not kept >= 0: every save stores the counts that
\* get returned plus the command's step, whatever their sign, so that a
\* stored count can be negative.
C21_CountersUnguarded ==
    [][\A p \in Callers :
          SaveEnds(p) =>
              LET m == RankEntry(rankLog', frame[p].rank[1].id)
              IN  /\ m.proposed = frame[p].got[1].proposed + Step(frame[p].cmd)[1]
                  /\ m.participated = frame[p].got[1].participated + Step(frame[p].cmd)[2]]_vars

\* an owner's stored proposed or participated count is negative
C21_Witness ==
    \E m \in Range(rankLog) : m.proposed < 0 \/ m.participated < 0

----------------------------------------------------------------------------
(* Database.fetch_all and Database.fetch of the carpool store, under       *)
(* SpecCarpool                                                             *)

\* the entries the last call's history yielded: the newest limit ones of
\* the channel as it was, newest first
Newest ==
    LET n == Len(res.before)
        k == IF res.arg = None \/ res.arg[1] > n THEN n ELSE res.arg[1]
    IN  [i \in 1..k |-> res.before[n + 1 - i]]

\* the entry's departure is before the time of the call
Departed(m) == DateReadable(m) /\ m.date < res.at

\* C22: fetch_all(limit) returns, newest first, exactly the unexpired
\* records among the newest limit entries, and deletes exactly the expired
\* entries among them.
C22_FetchAllExact ==
    res.op = "fetch_all" =>
        /\ res.out = "ok"
        /\ res.value = SelectSeq(Newest, LAMBDA m : ~Malformed(m) /\ ~Departed(m))
        /\ Ids(res.before) \ Ids(carpoolLog) = {m.id : m \in {x \in Range(Newest) : Departed(x)}}

----------------------------------------------------------------------------
(* Carpool.save and Rank.save, under SpecCmd                               *)

\* await carpool.save() of handler p answers in this step
CarpoolSaves(p) == frame[p].at = "save" /\ frame'[p].at # "save"

\* the step from log to after rewrote the message of id own to content and
\* nothing else: same length, same ids at the same positions, every other
\* entry as it was
EditedInPlace(log, after, own, content) ==
    /\ Len(after) = Len(log)
    /\ \A i \in 1..Len(log) :
          /\ after[i].id = log[i].id
          /\ log[i].id # own => after[i] = log[i]
          /\ log[i].id = own => after[i] = content

\* C23: save() on a Carpool or a Rank changes only the content of the
\* record's own message: it keeps its id and position, the number of
\* entries is unchanged, every other entry and the other logs are unchanged.
C23_SaveInPlace ==
    [][\A p \in Callers :
          /\ CarpoolSaves(p) =>
                /\ EditedInPlace(carpoolLog, carpoolLog', frame[p].carpool[1].id,
                                 Carpool_message(frame[p].carpool[1]))
                /\ UNCHANGED <<reminderLog, rankLog>>
          /\ SaveEnds(p) =>
                /\ EditedInPlace(rankLog, rankLog', frame[p].rank[1].id,
                                 Rank_message(frame[p].rank[1]))
                /\ UNCHANGED <<reminderLog, carpoolLog>>]_vars

\* two carpools and two rank records are stored, and the older carpool and
\* the older rank record have both been saved with new content
C23_Witness ==
    /\ Len(carpoolLog) = 2
    /\ carpoolLog[1].id = 2
    /\ carpoolLog[1].joiners # Joiners_str(<<3, 2>>)
    /\ Len(rankLog) = 2
    /\ ~Zero(rankLog[1])

----------------------------------------------------------------------------
(* group_dispatch(client, users, channel, message)                         *)
(*                                                                         *)
(* The call is followed one recipient at a time.  Which accounts refuse    *)
(* direct messages (send raises Forbidden) and which no longer exist       *)
(* (fetch_user raises NotFound) is fixed when the call starts.             *)

MaxRecipients == 3

Recipients == 1..MaxRecipients

\* the lists of distinct recipients
RecipientLists ==
    {<<>>} \cup
    UNION {{l \in [1..n -> Recipients] : \A i, j \in 1..n : i # j => l[i] # l[j]} :
           n \in 1..MaxRecipients}

\* every variable but call
stores == <<now, lastId, carpoolLog, reminderLog, reminders, tasks, nextTick,
            pc, todo, acc, ret, victim, target, cancelled, res,
            rankLog, frame, boots, fired>>

\* nothing else runs while the helper function is followed
StoresIdle ==
    /\ now = 0
    /\ lastId = 0
    /\ carpoolLog = <<>>
    /\ reminderLog = <<>>
    /\ reminders = <<>>
    /\ tasks = <<>>
    /\ nextTick = 0
    /\ pc = <<>>
    /\ todo = <<>>
    /\ acc = <<>>
    /\ ret = <<>>
    /\ victim = <<>>
    /\ target = <<>>
    /\ cancelled = {}
    /\ res = NoCall
    /\ rankLog = <<>>
    /\ frame = <<>>
    /\ boots = 0
    /\ fired = {}

\* str(discord.User): the account's name, not a mention
User_str(id) == <<"name", id, "">>

\* the objects group_dispatch collects in cannot_dm
AsMention(id) == [type |-> "Mention", id |-> id]
AsUser(id) == [type |-> "User", id |-> id]

\* map(str, cannot_dm)
Str(x) == IF x.type = "Mention" THEN Mention_str(x.id) ELSE User_str(x.id)

InitDispatch ==
    /\ \E users \in RecipientLists, refused \in SUBSET Recipients,
          unknown \in SUBSET Recipients :
          call = [fn |-> "group_dispatch", users |-> users, refused |-> refused,
                  unknown |-> unknown, i |-> 0, cannot_dm |-> <<>>, dm |-> <<>>,
                  sent |-> <<>>, end |-> "none"]
    /\ StoresIdle

\* the loop is at a recipient
AtRecipient ==
    /\ call.fn = "group_dispatch"
    /\ call.end = "none"
    /\ call.i < Len(call.users)

\* user = await client.fetch_user(mention.id) raises NotFound
dispatch_not_found ==
    /\ AtRecipient
    /\ call.users[call.i + 1] \in call.unknown
    /\ call' = [call EXCEPT !.end = "raised"]
    /\ UNCHANGED stores

\* await user.dm_channel.send(message) delivers
dispatch_dm ==
    /\ AtRecipient
    /\ call.users[call.i + 1] \notin call.unknown \cup call.refused
    /\ call' = [call EXCEPT !.dm = Append(@, call.users[call.i + 1]), !.i = @ + 1]
    /\ UNCHANGED stores

\* the send raises Forbidden: cannot_dm.append(user)
dispatch_forbidden ==
    /\ AtRecipient
    /\ call.users[call.i + 1] \in call.refused \ call.unknown
    /\ call' = [call EXCEPT !.cannot_dm = Append(@, AsUser(call.users[call.i + 1])),
                            !.i = @ + 1]
    /\ UNCHANGED stores

\* after the loop: if cannot_dm, channel.send(message + "\n" + " ".join(map(str, cannot_dm)))
dispatch_return ==
    /\ call.fn = "group_dispatch"
    /\ call.end = "none"
    /\ call.i = Len(call.users)
    /\ call' = [call EXCEPT
                   !.sent = IF call.cannot_dm = <<>> THEN @
                            ELSE Append(@, [j \in 1..Len(call.cannot_dm) |->
                                               Str(call.cannot_dm[j])]),
                   !.end = "ok"]
    /\ UNCHANGED stores

NextDispatch ==
    \/ dispatch_not_found
    \/ dispatch_dm
    \/ dispatch_forbidden
    \/ dispatch_return

SpecDispatch == InitDispatch /\ [][NextDispatch]_vars

\* the call has ended
Dispatched == call.fn = "group_dispatch" /\ call.end # "none"

\* C24: group_dispatch never fails because a direct message is refused;
\* every recipient either got the direct message or is mentioned in the one
\* message sent to the fallback channel; that message is sent if and only if
\* some recipient could not be messaged directly; the recipients after a
\* refusal are still processed.
C24_RefusedAreMentioned ==
    Dispatched =>
        /\ call.end = "raised" => \E i \in 1..Len(call.users) : call.users[i] \in call.unknown
        /\ call.end = "ok" =>
              /\ call.i = Len(call.users)
              /\ Len(call.sent) <= 1
              /\ Len(call.sent) = 1 <=> Range(call.users) \cap call.refused # {}
              /\ \A u \in Range(call.users) :
                    \/ u \in Range(call.dm)
                    \/ /\ call.sent # <<>>
                       /\ Mention_str(u) \in Range(call.sent[1])

----------------------------------------------------------------------------
(* Carpool.serialize and the decoding of Carpool.from_message, character   *)
(* by character.  A text is a sequence of one-character strings.           *)

MaxText == 4

\* Carpool.DELIMITER, the Python literal "\\\\!": two backslashes and a bang
DELIMITER == <<"\\", "\\", "!">>

Alphabet == {"\\", "!", "a"}

StartsWith(s, w) == Len(s) >= Len(w) /\ SubSeq(s, 1, Len(w)) = w

\* w in s
Contains(s, w) == \E i \in 1..Len(s) : StartsWith(SubSeq(s, i, Len(s)), w)

\* s.replace(w, ""): the occurrences found scanning from the left are dropped
RECURSIVE replace(_, _)
replace(s, w) ==
    IF s = <<>> THEN <<>>
    ELSE IF StartsWith(s, w) THEN replace(SubSeq(s, Len(w) + 1, Len(s)), w)
    ELSE <<Head(s)>> \o replace(Tail(s), w)

\* a single pass of replace
remove_delimiter_once(s) == replace(s, DELIMITER)

\* remove_delimiter of serialize: replace until no delimiter is left
RECURSIVE remove_delimiter(_)
remove_delimiter(s) ==
    IF Contains(s, DELIMITER) THEN remove_delimiter(replace(s, DELIMITER)) ELSE s

\* w.join(parts)
RECURSIVE join(_, _)
join(w, parts) ==
    IF parts = <<>> THEN <<>>
    ELSE IF Len(parts) = 1 THEN parts[1]
    ELSE parts[1] \o w \o join(w, Tail(parts))

\* s.split(w), cur being the piece read so far
RECURSIVE split(_, _, _)
split(s, w, cur) ==
    IF s = <<>> THEN <<cur>>
    ELSE IF StartsWith(s, w) THEN <<cur>> \o split(SubSeq(s, Len(w) + 1, Len(s)), w, <<>>)
    ELSE split(Tail(s), w, Append(cur, Head(s)))

DigitChars == <<"0", "1", "2", "3", "4", "5", "6", "7", "8", "9">>

\* str(n) of a natural number
RECURSIVE Decimal(_)
Decimal(n) ==
    IF n < 10 THEN <<DigitChars[n + 1]>>
    ELSE Decimal(n \div 10) \o <<DigitChars[(n % 10) + 1]>>

\* int(text) of a text of digits
RECURSIVE int(_)
int(text) ==
    LET d == CHOOSE k \in 0..9 : DigitChars[k + 1] = text[Len(text)]
    IN  IF Len(text) = 1 THEN d ELSE 10 * int(SubSeq(text, 1, Len(text) - 1)) + d

removeprefix(s, w) == IF StartsWith(s, w) THEN SubSeq(s, Len(w) + 1, Len(s)) ELSE s

removesuffix(s, w) ==
    IF Len(s) >= Len(w) /\ SubSeq(s, Len(s) - Len(w) + 1, Len(s)) = w
    THEN SubSeq(s, 1, Len(s) - Len(w)) ELSE s

\* Mention.__str__ and Mention.__init__ on a str
Mention_text(id) == <<"<", "@">> \o Decimal(id) \o <<">">>
Mention_of(text) == int(removesuffix(removeprefix(text, <<"<", "@">>), <<">">>))

\* Timestamp.__str__ and Timestamp.__init__ on a str
Timestamp_text(t) == <<"<", "t", ":">> \o Decimal(t) \o <<">">>
Timestamp_of(text) == int(removesuffix(split(text, <<":">>, <<>>)[2], <<">">>))

\* Carpool.serialize
serialize(c) ==
    join(DELIMITER,
         <<Mention_text(c.owner),
           Timestamp_text(c.date),
           remove_delimiter(c.departure_place),
           remove_delimiter(c.arrival_place),
           remove_delimiter(c.max_distance),
           remove_delimiter(c.duration),
           Decimal(c.seats),
           join(<<";">>, [i \in 1..Len(c.joiners) |-> Mention_text(c.joiners[i])])>>)

\* the fields Carpool.from_message builds from the eight pieces
Carpool_of(f) ==
    [owner |-> Mention_of(f[1]),
     date |-> Timestamp_of(f[2]),
     departure_place |-> f[3],
     arrival_place |-> f[4],
     max_distance |-> f[5],
     duration |-> f[6],
     seats |-> int(f[7]),
     joiners |-> LET pieces == SelectSeq(split(f[8], <<";">>, <<>>), LAMBDA x : x # <<>>)
                 IN  [i \in 1..Len(pieces) |-> Mention_of(pieces[i])]]

\* the texts of at most n characters
TextsUpTo(n) == UNION {[1..k -> Alphabet] : k \in 0..n}

\* free texts a user may type: every short one, and longer ones with two
\* adjacent, two nested and two interleaved copies of the delimiter
Texts ==
    TextsUpTo(MaxText) \cup
    {DELIMITER \o DELIMITER,
     <<"\\", "\\">> \o DELIMITER \o <<"!">>,
     <<"\\">> \o DELIMITER \o <<"\\", "!">>,
     <<"a">> \o DELIMITER \o <<"\\", "\\">>,
     <<"\\", "\\", "\\", "\\">> \o DELIMITER \o <<"!", "!">>}

\* a few texts for the other free-text fields
FewTexts == {<<>>, <<"\\", "\\">>, <<"!">>, <<"\\", "\\", "\\">> \o DELIMITER \o <<"!">>}

InitCodec ==
    /\ \E dep \in Texts, arr \in FewTexts, dist \in {<<>>, <<"\\">>},
          dur \in {<<"a">>, DELIMITER}, owner \in {1, 23}, date \in {0, 1207},
          seats \in {1, 10}, joiners \in {<<>>, <<2>>, <<3, 2>>, <<2, 31>>} :
          call = [fn |-> "codec", at |-> "new",
                  carpool |-> [owner |-> owner, date |-> date, departure_place |-> dep,
                               arrival_place |-> arr, max_distance |-> dist,
                               duration |-> dur, seats |-> seats, joiners |-> joiners],
                  content |-> <<>>, pieces |-> <<>>, out |-> None]
    /\ StoresIdle

\* channel.send(content=carpool.serialize())
codec_send ==
    /\ call.fn = "codec"
    /\ call.at = "new"
    /\ call' = [call EXCEPT !.at = "sent", !.content = serialize(call.carpool)]
    /\ UNCHANGED stores

\* Carpool.from_message: the unpacking of message.content.split(DELIMITER)
\* raises unless there are eight pieces
codec_from_message ==
    /\ call.fn = "codec"
    /\ call.at = "sent"
    /\ LET pieces == split(call.content, DELIMITER, <<>>)
       IN  call' = [call EXCEPT !.at = "read", !.pieces = pieces,
                                !.out = IF Len(pieces) = CarpoolArity
                                        THEN Some(Carpool_of(pieces)) ELSE None]
    /\ UNCHANGED stores

NextCodec ==
    \/ codec_send
    \/ codec_from_message

SpecCodec == InitCodec /\ [][NextCodec]_vars

\* s with the leftmost copy of the delimiter taken out, again and again,
\* until it holds none
RECURSIVE Stripped(_)
Stripped(s) ==
    LET hits == {i \in 1..Len(s) : StartsWith(SubSeq(s, i, Len(s)), DELIMITER)}
    IN  IF hits = {} THEN s
        ELSE Stripped(SubSeq(s, 1, Min(hits) - 1)
                      \o SubSeq(s, Min(hits) + Len(DELIMITER), Len(s)))

\* C25: decoding the serialized line of a carpool yields exactly 8 fields,
\* equal to the original ones with every copy of the delimiter removed from
\* the free-text fields (removal repeated until none remains); the joiners
\* come back in order, the empty list being written as an empty field.
C25_RoundTrip ==
    (call.fn = "codec" /\ call.at = "read") =>
        /\ Len(call.pieces) = CarpoolArity
        /\ call.carpool.joiners = <<>> => call.pieces[8] = <<>>
        /\ call.out # None
        /\ call.out[1] = [call.carpool EXCEPT
                             !.departure_place = Stripped(@),
                             !.arrival_place = Stripped(@),
                             !.max_distance = Stripped(@),
                             !.duration = Stripped(@)]

\* a carpool has been read back whose departure place held nested copies of
\* the delimiter and whose joiner list is empty
C25_Witness ==
    /\ call.fn = "codec"
    /\ call.at = "read"
    /\ Contains(replace(call.carpool.departure_place, DELIMITER), DELIMITER)
    /\ call.out[1].departure_place = <<>>
    /\ call.carpool.joiners = <<>>

----------------------------------------------------------------------------
(* What _quitter deletes, under SpecLeave                                  *)

\* the loop of handler p is inside Reminder.delete: the reminder victim[p]
\* has been taken out of the cache and its message is being deleted
Deleting(p) == pc[p] = "del"

\* C26: when a user leaves a carpool, the reminders of the other joiners
\* for that carpool stay in the reminder log and in the cache: the leave
\* command deletes no reminder of another user.
C26_OthersRemindersKept ==
    \A p \in Leavers :
        (frame[p].cmd = "quitter" /\ Deleting(p)) =>
            victim[p][1].user = frame[p].user

----------------------------------------------------------------------------
(* _modifier with a new day or time: the reminders of the carpool are      *)
(* deleted and created again for the new date.  The bot runs (the startup  *)
(* load has filled the cache, mainloop polls); the carpools leave late     *)
(* enough that no reminder comes due while the clock runs.                 *)

FarDeparture == MaxTime + PollInterval + 10 * Minute

\* the dates the owner may move the carpool to
NewDates == {FarDeparture + Minute, FarDeparture + PollInterval}

ModifyCarpools == <<Carpool_serialize(1, FarDeparture), Carpool_serialize(2, FarDeparture)>>

\* reminder 3 is for carpool 2; reminders 4 and 5, when there, are for
\* carpool 1, of users 1 and 2 with leads of 4 minutes and 1 minute
ModifyReminders ==
    LET other == Reminder(3, FarDeparture, FarDeparture - 4 * Minute, 2, 1, 2)
        first == Reminder(4, FarDeparture, FarDeparture - 4 * Minute, 1, 1, 1)
        second == Reminder(5, FarDeparture, FarDeparture - Minute, 2, 2, 1)
    IN  {<<other>>, <<other, first>>, <<first, other>>, <<other, first, second>>,
         <<first, other, second>>, <<first, second, other>>, <<first, second>>}

InitModify ==
    /\ now = 0
    /\ lastId = 5
    /\ carpoolLog = ModifyCarpools
    /\ reminderLog \in ModifyReminders
    /\ reminders = Reverse(reminderLog)
    /\ tasks = {}
    /\ nextTick = PollInterval
    /\ pc = [p \in Procs |-> IF p = "main" THEN "sleep" ELSE "idle"]
    /\ todo = [p \in Procs |-> <<>>]
    /\ acc = [p \in Procs |-> <<>>]
    /\ ret = [p \in Procs |-> NoLoop]
    /\ victim = [p \in Procs |-> <<>>]
    /\ target = [p \in Procs |-> 0]
    /\ cancelled = {}
    /\ res = NoCall
    /\ rankLog = <<>>
    /\ frame = [p \in Callers |-> NoCmd]
    /\ boots = 0
    /\ call = NoEval
    /\ fired = {}

\* _modifier of the owner u on the carpool id with a day or time that make
\* carpool.date = date: await carpool.save() answers; the handler goes on
\* to fetch_all.  (before: the carpool's reminders stored at that moment.)
modifier(p, u, id, date) ==
    /\ pc[p] = "idle"
    /\ frame[p].cmd = "none"
    /\ id \in Ids(carpoolLog)
    /\ carpoolLog' = [i \in 1..Len(carpoolLog) |->
                         IF carpoolLog[i].id = id
                         THEN [carpoolLog[i] EXCEPT !.date = date]
                         ELSE carpoolLog[i]]
    /\ frame' = [frame EXCEPT ![p] =
                    [cmd |-> "modifier", user |-> u, end |-> "none", date |-> date,
                     before |-> {m \in Range(reminderLog) : m.source = id}]]
    /\ target' = [target EXCEPT ![p] = id]
    /\ pc' = [pc EXCEPT ![p] = "call"]
    /\ UNCHANGED <<now, lastId, reminderLog, reminders, tasks, nextTick, todo,
                   acc, ret, victim, cancelled, res, rankLog, boots, call, fired>>

\* await reminder.delete() of _modifier's loop answers (NotFound ends the
\* handler); the handler goes on to create
modifier_delete(p) ==
    /\ pc[p] = "del"
    /\ LET r == victim[p][1]
       IN  /\ reminderLog' = RemoveMsg(reminderLog, r.id)
           /\ cancelled' = IF r.id \in Ids(reminderLog) /\ ~Armed(tasks, r.id)
                           THEN cancelled \cup {r.id} ELSE cancelled
           /\ IF r.id \in Ids(reminderLog)
              THEN /\ pc' = [pc EXCEPT ![p] = "new"]
                   /\ UNCHANGED <<reminders, victim, ret>>
              ELSE loop_raise(p)
    /\ loop_end(p)
    /\ UNCHANGED <<now, lastId, carpoolLog, tasks, nextTick, todo, acc, target,
                   res, rankLog, boots, call, fired>>

\* await client.reminder_database.create(...) of _modifier's loop answers:
\* the new reminder has its message and is appended to the cache; the for
\* loop takes its next reminder
modifier_create(p) ==
    /\ pc[p] = "new"
    /\ lastId' = lastId + 1
    /\ LET old == victim[p][1]
           date == frame[p].date
           r == Reminder(lastId + 1, date, date - (old.event_date - old.remind_date),
                         old.user, old.fallback_channel, old.source)
       IN  /\ reminderLog' = Append(reminderLog, r)
           /\ delete_next(p, Append(reminders, r), ret[p], ret)
    /\ loop_end(p)
    /\ UNCHANGED <<now, carpoolLog, tasks, nextTick, todo, acc, target,
                   cancelled, res, rankLog, boots, call, fired>>

Owners == {"c1"}

NextModify ==
    \/ mainloop /\ UNCHANGED call
    \/ \E p \in Owners, d \in NewDates : modifier(p, 1, 1, d)
    \/ \E p \in Owners : handler_fetch_all(p)
    \/ \E p \in Owners : from_message(p) /\ loop_end(p)
    \/ \E p \in Owners : modifier_delete(p)
    \/ \E p \in Owners : modifier_create(p)
    \/ Advance

SpecModify == InitModify /\ [][NextModify]_vars

\* the stored reminders that replace the reminder old for the date
Replacing(old, date) ==
    {m \in Range(reminderLog) :
        /\ m.source = old.source
        /\ m.event_date = date
        /\ m.event_date - m.remind_date = old.event_date - old.remind_date
        /\ m.user = old.user
        /\ m.fallback_channel = old.fallback_channel}

\* C27: once a modify command that changed the carpool's date has ended,
\* every reminder that referenced the carpool has been replaced by exactly
\* one reminder for the new date with the same lead, user and fallback
\* channel (the replacement is stored and cached, the old one is gone from
\* both), whatever the number of reminders, and the command ends normally.
C27_EachReminderReplacedOnce ==
    \A p \in Owners :
        (frame[p].cmd = "modifier" /\ frame[p].end # "none") =>
            /\ frame[p].end = "ok"
            /\ \A old \in frame[p].before :
                  /\ old \notin Stored
                  /\ Cardinality(Replacing(old, frame[p].date)) = 1
                  /\ Replacing(old, frame[p].date) \subseteq Range(reminders)
            /\ Cardinality({m \in Stored : m.source = target[p]})
                  = Cardinality(frame[p].before)

----------------------------------------------------------------------------
(* Deletes of reminder messages, under Spec                                *)

\* the reminders whose message.delete() has been called and has not
\* answered yet: by Reminder.delete in process, or in a handler's loop
BeingDeleted ==
    {k.rem.id : k \in {j \in tasks : j.st = "delete"}}
        \cup {victim[p][1].id : p \in {q \in Callers : pc[q] = "del"}}

\* C28: each message of the reminder log is deleted at most once: no
\* delete is under way for a reminder message that is already gone from
\* the log.
C28_DeletedAtMostOnce ==
    BeingDeleted \subseteq Ids(reminderLog)

----------------------------------------------------------------------------
(* Not-found answers of the carpool Database.fetch, under SpecCarpool      *)

\* C29: fetch(shortId) returns not-found only when the log holds no
\* unexpired carpool whose id ends with shortId: an expired newer entry
\* with the same suffix does not hide an older unexpired one.
C29_NotFoundMeansNoMatch ==
    (res.op = "fetch" /\ res.out = "ok" /\ res.value = <<>>) =>
        \A m \in Matches : Malformed(m) \/ m.date < res.at

----------------------------------------------------------------------------
(* The date _modifier stores.  A datetime is a number of seconds; its      *)
(* date() is the day it falls in and its time() the seconds since that     *)
(* day began, in the bot's one time zone.                                  *)

MaxDay == 3

Day == 24 * 60 * Minute

date_of(dt) == dt \div Day

time_of(dt) == dt % Day

\* datetime.datetime.combine(date, time, tzinfo)
combine(d, t) == d * Day + t

\* the times of day of the model: midnight, 08:30, 23:59
Times == {0, 510 * Minute, 1439 * Minute}

Datetimes == {combine(d, t) : d \in 1..MaxDay, t \in Times}

\* carpool.date after the two tests on jour and heure of _modifier; date is
\* carpool.date.as_datetime() as read before them
modifier_date(date, jour, heure) ==
    LET after_jour == IF jour # None THEN combine(date_of(jour[1]), time_of(date))
                      ELSE date
    IN  IF heure # None THEN combine(date_of(date), time_of(heure[1]))
        ELSE after_jour

InitDate ==
    /\ \E date \in Datetimes, jour \in {None} \cup {Some(dt) : dt \in Datetimes},
          heure \in {None} \cup {Some(dt) : dt \in Datetimes} :
          call = [fn |-> "modifier", at |-> "new", date |-> date, jour |-> jour,
                  heure |-> heure, out |-> date]
    /\ StoresIdle

\* _modifier up to await carpool.save()
modifier_dates ==
    /\ call.fn = "modifier"
    /\ call.at = "new"
    /\ call' = [call EXCEPT !.at = "save",
                            !.out = modifier_date(call.date, call.jour, call.heure)]
    /\ UNCHANGED stores

NextDate == modifier_dates

SpecDate == InitDate /\ [][NextDate]_vars

\* C30: a modify command given both a new day and a new time stores the
\* new day with the new time; given only a day it keeps the old time, and
\* given only a time it keeps the old day.
C30_NewDayAndNewTime ==
    (call.fn = "modifier" /\ call.at = "save") =>
        /\ date_of(call.out) = IF call.jour # None THEN date_of(call.jour[1])
                               ELSE date_of(call.date)
        /\ time_of(call.out) = IF call.heure # None THEN time_of(call.heure[1])
                               ELSE time_of(call.date)

====
